---- MODULE Spec2Model ----
(***************************************************************************)
(* Reference resolution of the TypeScript command-line compiler:           *)
(* CodeResolver.resolveCode (src/src/compiler/referenceResolution.ts) and  *)
(* its driver CommandLineHost.resolveCompilationEnvironment                *)
(* (src/unnamed/part_000).                                                 *)
(*                                                                         *)
(* A path is a sequence of one-character strings, so that the suffix,      *)
(* case-folding and joining rules of the resolver are computed on the      *)
(* characters, as the code computes them.  The recursion of resolveCode is *)
(* an explicit stack of frames; one behaviour is one resolution pass.      *)
(***************************************************************************)
EXTENDS Integers, Sequences, FiniteSets, TLC

VARIABLES
    files,          \* the paths that exist on disk (the host's file system)
    contents,       \* path -> [refs, imports]: what preProcessFile finds in it
    caseSensitive,  \* compilationSettings.useCaseSensitiveFileResolution
    entries,        \* preEnv.code[i].path, the entry files as given
    pc,             \* "resolve" while the driver loop runs, then "done"
    entryIdx,       \* the driver loop's i (1-based)
    stack,          \* the active resolveCode frames, innermost last
    visited,        \* CodeResolver.visited (the keys set to true)
    pathMap,        \* CommandLineHost.pathMap
    resolvedPaths,  \* CommandLineHost.resolvedPaths (the ids set to true)
    code,           \* resolvedEnv.code (the units' paths, in order)
    calls,          \* history: every resolveCode call, in order
    reads,          \* history: every readFile / findFile call, in order
    posts,          \* history: every dispatcher.postResolution call, in order
    errors,         \* history: every dispatcher.postResolutionError call, in order
    stderr,         \* the lines written through errorReporter.WriteLine, in order
    checked,        \* BatchCompiler.resolve: the entries its loop has gone through
    unreadable,     \* the paths on disk whose read raises an exception other than not found
    broken,         \* the paths on disk whose content does not compile
    compilationSettings, \* [exec, watch]: the -exec and -watch flags
    collation,      \* the host's String.localeCompare: "ordinal" or "locale"
    hasErrors,      \* errorReporter.hasErrors
    activation,     \* what runs: "batchCompile" or "onWatchedFileChange"
    notifications,  \* how many change notifications were delivered
    resolvedFiles,  \* watchFiles: the stored list of watched paths
    watchers,       \* watchFiles: path -> the handle of its open watcher
    newFiles,       \* onWatchedFileChange: the sorted paths of the new environment
    mergeI,         \* onWatchedFileChange: i, the place in the old list (1-based)
    mergeJ,         \* onWatchedFileChange: j, the place in the new list (1-based)
    handles,        \* history: every handle ioHost.watchFile returned, [path, closed]
    log,            \* history: the steps of the running activation, in order
    passes,         \* history: the disk and the resolved list of every finished pass
    exitStatus,     \* the argument of ioHost.quit, "none" before
    emitter,        \* the DeclarationEmitter: its fields and its TextWriter
    walker          \* the AST walk that calls the emitter, and what was called

\* the disk
diskVars == <<files, contents, unreadable, broken>>

\* the command line and the host
hostVars == <<caseSensitive, entries, compilationSettings, collation>>

\* the resolution pass
passVars == <<pc, entryIdx, stack, visited, pathMap, resolvedPaths, code, calls, reads,
              posts, errors, stderr, checked, hasErrors>>

\* the state of watchFiles and the histories of the batch compiler
watchVars == <<activation, notifications, resolvedFiles, watchers, newFiles, mergeI,
               mergeJ, handles, log, passes, exitStatus>>

\* the emission of a declaration file
emitVars == <<emitter, walker>>

vars == <<diskVars, hostVars, passVars, watchVars, emitVars>>

-----------------------------------------------------------------------------
(* Characters and strings *)

SLASH == "/"
BACKSLASH == "\\"
DOT == "."
DQUOTE == "\""
SQUOTE == "'"

\* String.prototype.toLocaleUpperCase on one character
UpperCaseMap ==
    ("a" :> "A") @@ ("b" :> "B") @@ ("c" :> "C") @@ ("d" :> "D") @@ ("e" :> "E") @@
    ("f" :> "F") @@ ("g" :> "G") @@ ("h" :> "H") @@ ("i" :> "I") @@ ("j" :> "J") @@
    ("k" :> "K") @@ ("l" :> "L") @@ ("m" :> "M") @@ ("n" :> "N") @@ ("o" :> "O") @@
    ("p" :> "P") @@ ("q" :> "Q") @@ ("r" :> "R") @@ ("s" :> "S") @@ ("t" :> "T") @@
    ("u" :> "U") @@ ("v" :> "V") @@ ("w" :> "W") @@ ("x" :> "X") @@ ("y" :> "Y") @@
    ("z" :> "Z")

RECURSIVE toLocaleUpperCase(_)
toLocaleUpperCase(s) ==
    IF s = <<>> THEN <<>>
    ELSE <<IF Head(s) \in DOMAIN UpperCaseMap THEN UpperCaseMap[Head(s)] ELSE Head(s)>>
             \o toLocaleUpperCase(Tail(s))

\* s.substring(Len(s) - n, Len(s)), the last n characters
Last(s, n) == SubSeq(s, Len(s) - n + 1, Len(s))

EndsWith(s, suffix) == Len(s) >= Len(suffix) /\ Last(s, Len(suffix)) = suffix

RECURSIVE IndexFrom(_, _, _)
\* position of the first c in s at or after i, 0 when there is none
IndexFrom(s, c, i) ==
    IF i > Len(s) THEN 0 ELSE IF s[i] = c THEN i ELSE IndexFrom(s, c, i + 1)

\* s.indexOf(c), 1-based, 0 when there is none
IndexOf(s, c) == IndexFrom(s, c, 1)

RECURSIVE LastIndexFrom(_, _, _)
\* position of the last c in s at or before i, 0 when there is none
LastIndexFrom(s, c, i) ==
    IF i < 1 THEN 0 ELSE IF s[i] = c THEN i ELSE LastIndexFrom(s, c, i - 1)

\* s.lastIndexOf(c), 1-based, 0 when there is none
LastIndexOf(s, c) == LastIndexFrom(s, c, Len(s))

\* s.replace(c, ""): removes the first occurrence only
RemoveFirst(s, c) ==
    LET i == IndexOf(s, c)
    IN  IF i = 0 THEN s ELSE SubSeq(s, 1, i - 1) \o SubSeq(s, i + 1, Len(s))

EXT_TS == <<".", "t", "s">>
EXT_STR == <<".", "s", "t", "r">>
EXT_DTS == <<".", "d", ".", "t", "s">>
EXT_DSTR == <<".", "d", ".", "s", "t", "r">>
EXT_JS == <<".", "j", "s">>

-----------------------------------------------------------------------------
(* Path utilities of the compiler (pathUtils) *)

\* str.replace("\"", "").replace("'", "").replace("'", "").replace("\"", "")
stripQuotes(str) ==
    IF \A i \in 1..Len(str) : str[i] \notin {DQUOTE, SQUOTE} THEN str
    ELSE RemoveFirst(RemoveFirst(RemoveFirst(RemoveFirst(str, DQUOTE), SQUOTE), SQUOTE), DQUOTE)

RECURSIVE switchToForwardSlashes(_)
switchToForwardSlashes(path) ==
    IF path = <<>> THEN <<>>
    ELSE <<IF Head(path) = BACKSLASH THEN SLASH ELSE Head(path)>>
             \o switchToForwardSlashes(Tail(path))

isRelative(path) == Len(path) > 0 /\ path[1] = DOT

isRooted(path) ==
    \/ Len(path) > 0 /\ path[1] \in {BACKSLASH, SLASH}
    \/ \E i \in 1..(Len(path) - 1) : path[i] = ":" /\ path[i + 1] \in {BACKSLASH, SLASH}

\* case-insensitive suffix test; the name must be longer than the suffix
isFileOfExtension(fname, ext) ==
    /\ Len(fname) > Len(ext)
    /\ toLocaleUpperCase(Last(fname, Len(ext))) = toLocaleUpperCase(ext)

isSTRFile(fname) == isFileOfExtension(fname, EXT_STR)
isTSFile(fname) == isFileOfExtension(fname, EXT_TS)
isDSTRFile(fname) == isFileOfExtension(fname, EXT_DSTR)
isDTSFile(fname) == isFileOfExtension(fname, EXT_DTS)

\* strips one known suffix, compared case-sensitively, declaration suffixes first
trimModName(modName) ==
    LET cut(ext) == Len(modName) > Len(ext) /\ Last(modName, Len(ext)) = ext
        drop(ext) == SubSeq(modName, 1, Len(modName) - Len(ext))
    IN  IF cut(EXT_DSTR) THEN drop(EXT_DSTR)
        ELSE IF cut(EXT_STR) THEN drop(EXT_STR)
        ELSE IF cut(EXT_DTS) THEN drop(EXT_DTS)
        ELSE IF cut(EXT_TS) THEN drop(EXT_TS)
        ELSE IF cut(EXT_JS) THEN drop(EXT_JS)
        ELSE modName

changePathToSTR(modPath) == trimModName(stripQuotes(modPath)) \o EXT_STR
changePathToDSTR(modPath) == trimModName(stripQuotes(modPath)) \o EXT_DSTR
changePathToTS(modPath) == trimModName(stripQuotes(modPath)) \o EXT_TS
changePathToDTS(modPath) == trimModName(stripQuotes(modPath)) \o EXT_DTS

-----------------------------------------------------------------------------
(* The host's file system (IFileSystemObject) *)

\* the directory the compiler runs in
CWD == <<"/", "d">>

\* a path segment is added to the segments before it: empty and "." segments
\* are dropped, ".." removes the segment before it
PushSegment(acc, seg) ==
    IF seg = <<>> \/ seg = <<DOT>> THEN acc
    ELSE IF seg = <<DOT, DOT>>
         THEN (IF acc = <<>> THEN acc ELSE SubSeq(acc, 1, Len(acc) - 1))
         ELSE Append(acc, seg)

RECURSIVE NormalizeSegments(_, _, _, _)
\* the normalized segments of path p, read from position i on, with cur the
\* segment being read and acc the segments before it
NormalizeSegments(p, i, cur, acc) ==
    IF i > Len(p) THEN PushSegment(acc, cur)
    ELSE IF p[i] = SLASH THEN NormalizeSegments(p, i + 1, <<>>, PushSegment(acc, cur))
    ELSE NormalizeSegments(p, i + 1, Append(cur, p[i]), acc)

RECURSIVE JoinSegments(_)
JoinSegments(segs) ==
    IF segs = <<>> THEN <<>> ELSE <<SLASH>> \o Head(segs) \o JoinSegments(Tail(segs))

\* ioHost.resolvePath: the absolute, normalized form of a path
resolvePath(path) ==
    LET abs == IF Len(path) > 0 /\ path[1] = SLASH THEN path ELSE CWD \o <<SLASH>> \o path
        segs == NormalizeSegments(abs, 1, <<>>, <<>>)
    IN  IF segs = <<>> THEN <<SLASH>> ELSE JoinSegments(segs)

\* ioHost.dirName: the path up to its last slash
dirName(path) ==
    LET i == LastIndexOf(path, SLASH)
    IN  IF i = 0 THEN <<DOT>>
        ELSE IF i = 1 THEN <<SLASH>>
        ELSE SubSeq(path, 1, i - 1)

\* whether ioHost.readFile(path) returns content (otherwise it throws)
FileExists(path) == resolvePath(path) \in files

\* readFile returns the content: the file is there and reading it raises nothing
CanRead(path) == FileExists(path) /\ resolvePath(path) \notin unreadable

RECURSIVE findFile(_, _, _)
\* ioHost.findFile: looks for the partial path in rootPath, then in each ancestor
\* directory; the path it found, or <<>> for null.  first: the first probe is the
\* plain concatenation, later ones are resolved.
findFile(rootPath, partialFilePath, first) ==
    LET path == IF first THEN rootPath \o <<SLASH>> \o partialFilePath
                ELSE resolvePath(rootPath \o <<SLASH>> \o partialFilePath)
        parentPath == resolvePath(rootPath \o <<SLASH, DOT, DOT>>)
    IN  IF FileExists(path) THEN path
        ELSE IF rootPath = parentPath THEN <<>>
        ELSE findFile(parentPath, partialFilePath, FALSE)

-----------------------------------------------------------------------------
(* The files and references a pass is run on *)

\* at most this many references (directives and imports) in all files together
MaxEdges == 3
\* the recursion depth at which the model stops following calls
MaxDepth == 6

M_TS == <<"/", "d", "/", "m", ".", "t", "s">>
U_TS == <<"/", "d", "/", "u", ".", "t", "s">>
L_TS == <<"/", "d", "/", "l", ".", "t", "s">>
C_TS == <<"/", "d", "/", "c", ".", "t", "s">>
X_TS == <<"/", "d", "/", "s", "/", "x", ".", "t", "s">>
SC_TS == <<"/", "d", "/", "s", "/", "c", ".", "t", "s">>

\* the files on disk: main, util, lib and core in the directory the compiler runs
\* in; extra and another core in a directory below it
FilePool == {M_TS, U_TS, L_TS, C_TS, X_TS, SC_TS}

Directive(src, path) == [src |-> src, kind |-> "ref", path |-> path]
Import(src, path) == [src |-> src, kind |-> "import", path |-> path]

\* the references a file may contain.  main: directives to util, to itself, to
\* util under the other source suffix and to a name that is on disk only in
\* another letter case, imports of lib and of a module that is not on disk;
\* util: a directive back to main, an import of main; lib: an import of core;
\* extra: an import of core.
EdgePool ==
    { Directive(M_TS, <<"u", ".", "t", "s">>),
      Directive(M_TS, <<"m", ".", "t", "s">>),
      Directive(M_TS, <<"u", ".", "s", "t", "r">>),
      Directive(M_TS, <<"U", ".", "t", "s">>),
      Import(M_TS, <<"l">>),
      Import(M_TS, <<"U">>),
      Directive(U_TS, <<"m", ".", "t", "s">>),
      Import(U_TS, <<"m">>),
      Import(L_TS, <<"c">>),
      Import(X_TS, <<"c">>) }

\* the entry lists given on the command line (relative to CWD, or absolute):
\* main; a file that is not on disk, main and lib; a name with an unknown
\* suffix, main under the other source suffix, extra, and util without a suffix
EntryPool ==
    { << <<"m", ".", "t", "s">> >>,
      << <<"q", ".", "t", "s">>, <<"m", ".", "t", "s">>, L_TS >>,
      << <<"q", ".", "x", "y", "z">>, <<"m", ".", "s", "t", "r">>,
         <<"s", "/", "x", ".", "t", "s">>, <<"u">> >> }

SeqsUpTo(S, n) == UNION {[1..k -> S] : k \in 0..n}

RECURSIVE PathsOf(_, _, _)
\* the references of one kind that the edge list gives to one file, in order
PathsOf(es, f, kind) ==
    IF es = <<>> THEN <<>>
    ELSE LET e == Head(es)
         IN  (IF e.src = f /\ e.kind = kind THEN <<e.path>> ELSE <<>>)
                 \o PathsOf(Tail(es), f, kind)

\* preProcessFile: the directives and the imports of a file's content
preProcessFile(path) == contents[resolvePath(path)]

-----------------------------------------------------------------------------
(* CodeResolver.resolveCode, up to the acquisition of the content *)

\* a normalization that joins only relative paths to the parent path
NormalizedPath_AsIs(referencePath, parentPath, performSearch) ==
    LET isRelativePath == isRelative(referencePath)
        joined ==
            IF isRelativePath
            THEN resolvePath(parentPath \o <<SLASH>> \o referencePath)
            ELSE referencePath
        suffixed == IF ~isSTRFile(joined) /\ ~isTSFile(joined) THEN joined \o EXT_TS ELSE joined
    IN  switchToForwardSlashes(stripQuotes(suffixed))

\* the normalized path of a reference
NormalizedPath(referencePath, parentPath, performSearch) ==
    LET isRelativePath == isRelative(referencePath)
        isRootedPath == IF isRelativePath THEN FALSE ELSE isRooted(referencePath)
        joined ==
            IF isRelativePath
            THEN resolvePath(parentPath \o <<SLASH>> \o referencePath)
            ELSE IF isRootedPath \/ parentPath = <<>> \/ performSearch
                 THEN referencePath
                 ELSE parentPath \o <<SLASH>> \o referencePath
        suffixed == IF ~isSTRFile(joined) /\ ~isTSFile(joined) THEN joined \o EXT_TS ELSE joined
    IN  switchToForwardSlashes(stripQuotes(suffixed))

\* a resolver that never folds the case of the key
AbsoluteModuleID_Exact(normalizedPath) == normalizedPath

\* absoluteModuleID, the key of the visited set
AbsoluteModuleID(normalizedPath) ==
    IF caseSensitive THEN normalizedPath ELSE toLocaleUpperCase(normalizedPath)

\* a resolver that does not consult the visited set
IsVisited_Never(absoluteModuleID) == FALSE

IsVisited(absoluteModuleID) == absoluteModuleID \in visited

\* whether the content is read directly (otherwise it is searched for)
IsDirect(referencePath, performSearch) ==
    LET isRelativePath == isRelative(referencePath)
        isRootedPath == IF isRelativePath THEN FALSE ELSE isRooted(referencePath)
    IN  isRelativePath \/ isRootedPath \/ ~performSearch

\* the source suffix swapped to the other family
SwapSourceSuffix(normalizedPath) ==
    IF isSTRFile(normalizedPath) THEN changePathToTS(normalizedPath)
    ELSE IF isTSFile(normalizedPath) THEN changePathToSTR(normalizedPath)
    ELSE normalizedPath

\* a direct strategy that tries the primary declaration suffix before the legacy one
DirectAttempts_PrimaryDeclarationFirst(normalizedPath) ==
    LET p1 == normalizedPath
        p2 == SwapSourceSuffix(p1)
        p3 == changePathToDTS(p2)
        p4 == changePathToDSTR(p3)
    IN  <<p1, p2, p3, p4>>

\* the paths the direct strategy passes to readFile, while each one fails
DirectAttempts(normalizedPath) ==
    LET p1 == normalizedPath
        p2 == SwapSourceSuffix(p1)
        p3 == changePathToDSTR(p2)
        p4 == changePathToDTS(p3)
    IN  <<p1, p2, p3, p4>>

\* the names the search strategy passes to findFile, while each one finds nothing
SearchProbes(normalizedPath) ==
    LET p1 == normalizedPath
        p2 == SwapSourceSuffix(p1)
        p3 == changePathToDTS(p2)
        p4 == changePathToDSTR(p3)
    IN  <<p1, p2, p3, p4>>

\* the index of the first TRUE of a sequence of booleans, 0 when there is none
FirstHit(hits) ==
    IF \E i \in 1..Len(hits) : hits[i]
    THEN CHOOSE i \in 1..Len(hits) : hits[i] /\ \A j \in 1..(i - 1) : ~hits[j]
    ELSE 0

\* the readFile / findFile calls of one acquisition, as history records:
\* every attempt up to the first hit, or all of them
ReadLog(key, by, attempts, found, hit) ==
    LET entry(i) == [key |-> key, by |-> by, arg |-> attempts[i], attempt |-> i,
                     ok |-> (i = hit),
                     file |-> IF i = hit THEN resolvePath(found[i]) ELSE <<>>,
                     raised |-> IF i = hit THEN "nothing"
                                ELSE IF found[i] # <<>> /\ FileExists(found[i])
                                     THEN "other" ELSE "not found"]
    IN  SubSeq(<<entry(1), entry(2), entry(3), entry(4)>>, 1, IF hit = 0 THEN 4 ELSE hit)

\* the value of a field that holds nothing, a string that was read, an array
JSNull == [t |-> "null"]
JSContent(text) == [t |-> "string", text |-> text]
JSArray(items) == [t |-> "array", items |-> items]

\* new SourceUnit(path, content): referencedFiles starts as null
SourceUnit(path, content) == [path |-> path, content |-> content, referencedFiles |-> JSNull]

\* a resolver that leaves the referencedFiles of its unit as constructed
ResolvedUnit_Unprocessed(path) == SourceUnit(path, JSContent(contents[resolvePath(path)]))

\* the unit resolveCode makes of the content it acquired at resolvedFile.path,
\* with the directives preProcessFile found in it
ResolvedUnit(path) ==
    [SourceUnit(path, JSContent(contents[resolvePath(path)]))
        EXCEPT !.referencedFiles = JSArray(preProcessFile(path).refs)]

\* the frame of a resolveCode call whose content was acquired at resolvedFile.path
NewFrame(key, path) ==
    LET info == preProcessFile(path)
    IN  [key |-> key, path |-> path, rootDir |-> dirName(path),
         resolvedFilePath |-> resolvePath(path), sourceUnit |-> ResolvedUnit(path),
         refs |-> info.refs, imports |-> info.imports,
         i |-> 1, issued |-> <<>>, selfErrors |-> 0]

-----------------------------------------------------------------------------
(* The state after construction *)

\* batchCompile has parsed the command line: nothing is watched, nothing has run
BatchCompilerStarts ==
    /\ activation = "batchCompile"
    /\ notifications = 0
    /\ resolvedFiles = <<>>
    /\ watchers = <<>>
    /\ newFiles = <<>>
    /\ mergeI = 1
    /\ mergeJ = 1
    /\ handles = <<>>
    /\ log = <<>>
    /\ passes = <<>>
    /\ exitStatus = "none"
    /\ emitter = <<>>
    /\ walker = <<>>

Init ==
    /\ files = FilePool
    /\ \E es \in SeqsUpTo(EdgePool, MaxEdges) :
          contents = [f \in FilePool |->
                         [refs |-> PathsOf(es, f, "ref"), imports |-> PathsOf(es, f, "import")]]
    /\ caseSensitive \in BOOLEAN
    /\ entries \in EntryPool
    /\ pc = "resolve"
    /\ entryIdx = 1
    /\ stack = <<>>
    /\ visited = {}
    /\ pathMap = <<>>
    /\ resolvedPaths = {}
    /\ code = <<>>
    /\ calls = <<>>
    /\ reads = <<>>
    /\ posts = <<>>
    /\ errors = <<>>
    /\ stderr = <<>>
    /\ checked = 0
    /\ unreadable = {}
    /\ broken = {}
    /\ compilationSettings = [exec |-> FALSE, watch |-> FALSE]
    /\ collation = "ordinal"
    /\ hasErrors = FALSE
    /\ BatchCompilerStarts

-----------------------------------------------------------------------------
(* Where the pass is: the driver loop, or the loops of the innermost frame *)

getPathIdentifier(path) == IF caseSensitive THEN path ELSE toLocaleUpperCase(path)

\* the innermost frame
Top == stack[Len(stack)]

\* the reference the frame is at: directives first, then imports
AtDirective(frame) == frame.i <= Len(frame.refs)
AtImport(frame) ==
    frame.i > Len(frame.refs) /\ frame.i <= Len(frame.refs) + Len(frame.imports)
AtEnd(frame) == frame.i > Len(frame.refs) + Len(frame.imports)

\* a resolver that takes the directives last to first
CurrentReference_Backwards(frame) ==
    IF AtDirective(frame) THEN frame.refs[Len(frame.refs) + 1 - frame.i]
    ELSE frame.imports[frame.i - Len(frame.refs)]

CurrentReference(frame) ==
    IF AtDirective(frame) THEN frame.refs[frame.i]
    ELSE frame.imports[frame.i - Len(frame.refs)]

\* a resolver without the check for a reference of a file to itself
IsSelfReference_Never(frame, fileReference) == FALSE

\* the directive resolves to the path of the file that contains it
IsSelfReference(frame, fileReference) ==
    frame.resolvedFilePath =
        resolvePath(IF isRooted(fileReference) THEN fileReference
                    ELSE frame.rootDir \o <<SLASH>> \o fileReference)

\* the next statement is a call of resolveCode: by the driver loop for the next
\* entry, or by the innermost frame for a directive or an import
CallPending ==
    /\ pc = "resolve"
    /\ \/ stack = <<>>
       \/ /\ stack # <<>>
          /\ \/ AtImport(Top)
             \/ AtDirective(Top) /\ ~IsSelfReference(Top, CurrentReference(Top))

\* the arguments of that call
TheCall ==
    IF stack = <<>>
    THEN [ref |-> switchToForwardSlashes(resolvePath(entries[entryIdx])),
          parent |-> <<>>, search |-> FALSE]
    ELSE [ref |-> CurrentReference(Top), parent |-> Top.rootDir, search |-> AtImport(Top)]

\* the driver notes the resolved path of the entry it is about to resolve
PathMapAtCall(call) ==
    IF stack = <<>> THEN (entries[entryIdx] :> call.ref) @@ pathMap ELSE pathMap

\* the stack with the call noted in the calling frame
Calling(call) ==
    IF stack = <<>> THEN stack
    ELSE [stack EXCEPT ![Len(stack)].issued =
              Append(@, [ref |-> call.ref, search |-> call.search])]

\* the path of the frame on the stack that was acquired under the key, <<>>
\* when no frame was
InProgress(key) ==
    IF \E n \in 1..Len(stack) : stack[n].key = key
    THEN stack[CHOOSE n \in 1..Len(stack) : stack[n].key = key].path
    ELSE <<>>

CallRecord(call, acq, outcome) ==
    [ref |-> call.ref, parent |-> call.parent, search |-> call.search,
     normalized |-> acq.normalized, key |-> acq.key, depth |-> Len(stack),
     outcome |-> outcome,
     caller |-> IF stack = <<>> THEN <<>> ELSE Top.path,
     inProgress |-> InProgress(acq.key)]

\* the error a frame reports for the reference it is at
ReferenceError(frame, kind) ==
    [file |-> frame.resolvedFilePath, ref |-> CurrentReference(frame), kind |-> kind]

\* the pieces a written line is made of: literal text, a path, a number, a
\* message of the resolver
Text(str) == [k |-> "text", v |-> str]
PathText(path) == [k |-> "path", v |-> path]
NumberText(n) == [k |-> "number", v |-> n]
Message(kind, path) == [k |-> "message", v |-> [message |-> kind, path |-> path]]

\* a JavaScript value, as far as string concatenation tells values apart
JSString(tokens) == [t |-> "string", tokens |-> tokens]
JSObject(fields) == [t |-> "object", fields |-> fields]
JSUndefined == [t |-> "undefined"]

\* the string a value becomes when it is concatenated to a string; a string is a
\* sequence of tokens (a path, a message, a piece of punctuation)
StringOf(v) ==
    IF v.t = "string" THEN v.tokens
    ELSE IF v.t = "object" THEN <<Text("[object Object]")>>
    ELSE <<Text("undefined")>>

\* the dispatcher of resolveCompilationEnvironment: the line that its
\* postResolutionError(errorFile, line, col, errorMessage) writes
DispatcherErrorLine(errorFile, line, col, errorMessage) ==
    StringOf(errorFile) \o <<Text("(")>> \o StringOf(line) \o <<Text(",")>>
        \o StringOf(col) \o <<Text(")"), Text(" ")>>
        \o (IF errorMessage.t = "string" /\ errorMessage.tokens = <<>> THEN <<>>
            ELSE <<Text(":"), Text(" ")>> \o StringOf(errorMessage))

\* the reference the frame is at, as preProcessFile gives it: its path and its
\* position (the n-th reference of a file is on line n, at character 0)
FileReference(frame) ==
    [path |-> CurrentReference(frame), line |-> frame.i, character |-> 0]

\* the resolver calls postResolutionError(errorFile, fileReference, errorMessage):
\* the dispatcher takes the three arguments as its first three parameters and
\* its fourth is undefined
PostResolutionErrorLine(frame, kind) ==
    DispatcherErrorLine(JSString(<<PathText(frame.resolvedFilePath)>>),
                        JSObject(FileReference(frame)),
                        JSString(<<Message(kind, CurrentReference(frame))>>),
                        JSUndefined)

\* the lines on stderr after a call made from the top of stk returned result
StderrAfterReturn(stk, result) ==
    IF stk = <<>> \/ result THEN stderr
    ELSE Append(stderr,
             PostResolutionErrorLine(stk[Len(stk)],
                 IF AtDirective(stk[Len(stk)]) THEN "reference" ELSE "import"))

\* a resolver that does not report the references it could not resolve
ErrorsAfterReturn_Silent(stk, result) == errors

\* the errors after a call made from the top of stk returned result
ErrorsAfterReturn(stk, result) ==
    IF stk = <<>> \/ result THEN errors
    ELSE Append(errors,
             ReferenceError(stk[Len(stk)],
                 IF AtDirective(stk[Len(stk)]) THEN "reference" ELSE "import"))

\* a call made from the top of stk returns result: the frame reports an error
\* when it is false and goes on to its next reference; the driver loop ignores
\* the result and goes on to the next entry
Returns(stk, result) ==
    /\ stack' = IF stk = <<>> THEN stk ELSE [stk EXCEPT ![Len(stk)].i = @ + 1]
    /\ errors' = ErrorsAfterReturn(stk, result)
    /\ stderr' = StderrAfterReturn(stk, result)
    /\ entryIdx' = IF stk = <<>> THEN entryIdx + 1 ELSE entryIdx
    /\ pc' = IF stk = <<>> /\ entryIdx = Len(entries) THEN "done" ELSE pc

\* a dispatcher that appends every unit it is given
PostResolutionCode_Always(path) == Append(code, path)

\* the dispatcher's postResolution: a unit is appended unless its id is present
PostResolutionCode(path) ==
    IF getPathIdentifier(path) \in resolvedPaths THEN code ELSE Append(code, path)

-----------------------------------------------------------------------------
(* CodeResolver.resolveCode *)

\* a resolver that does not record the key of the content it acquired
MarkVisited_Forgotten(absoluteModuleID) == visited

\* a resolver whose visited set holds the last key only
MarkVisited_OnlyLast(absoluteModuleID) == {absoluteModuleID}

\* this.visited[absoluteModuleID] = true
MarkVisited(absoluteModuleID) == visited \cup {absoluteModuleID}

\* a resolver that falls through to its last statement when the reads fail
DirectMissResult_True == TRUE

\* the value returned when the four reads of the direct strategy fail
DirectMissResult == FALSE

\* the value returned when the search finds nothing: the code falls through to
\* its last statement
SearchMissResult == TRUE

\* which of the four reads of the direct strategy would succeed
DirectHits(attempts) ==
    <<CanRead(attempts[1]), CanRead(attempts[2]),
      CanRead(attempts[3]), CanRead(attempts[4])>>

\* what each of the four probes of the search strategy would find
SearchFinds(parentPath, probes) ==
    <<findFile(parentPath, probes[1], TRUE), findFile(parentPath, probes[2], TRUE),
      findFile(parentPath, probes[3], TRUE), findFile(parentPath, probes[4], TRUE)>>

SearchHits(found) == <<found[1] # <<>>, found[2] # <<>>, found[3] # <<>>, found[4] # <<>> >>

\* how a call acquires the content when its key is not visited: the key, the
\* strategy, the paths tried, what each try gives and the first that gives a
\* file (0 when none does)
Acquisition(call) ==
    LET normalizedPath == NormalizedPath(call.ref, call.parent, call.search)
        direct == IsDirect(call.ref, call.search)
        attempts == IF direct THEN DirectAttempts(normalizedPath)
                    ELSE SearchProbes(normalizedPath)
        found == IF direct THEN attempts ELSE SearchFinds(call.parent, attempts)
    IN  [normalized |-> normalizedPath,
         key |-> AbsoluteModuleID(normalizedPath), direct |-> direct,
         attempts |-> attempts, found |-> found,
         hit |-> IF direct THEN FirstHit(DirectHits(attempts))
                 ELSE FirstHit(SearchHits(found))]

\* the call returns without a frame of its own
ReturnsAtOnce(call, acq, outcome, result) ==
    /\ calls' = Append(calls, CallRecord(call, acq, outcome))
    /\ pathMap' = PathMapAtCall(call)
    /\ Returns(Calling(call), result)

\* the content was acquired at path: the key is marked and the frame starts on
\* the file's references
StartsFrame(call, acq, path) ==
    /\ stack' = Append(Calling(call), NewFrame(acq.key, path))
    /\ visited' = MarkVisited(acq.key)
    /\ calls' = Append(calls, CallRecord(call, acq, "acquired"))
    /\ pathMap' = PathMapAtCall(call)

VisitedStep(call, acq) ==
    /\ IsVisited(acq.key)
    /\ ReturnsAtOnce(call, acq, "visited", TRUE)

DirectHitStep(call, acq) ==
    /\ ~IsVisited(acq.key)
    /\ acq.direct
    /\ acq.hit # 0
    /\ reads' = reads \o ReadLog(acq.key, "readFile", acq.attempts, acq.found, acq.hit)
    /\ StartsFrame(call, acq, acq.attempts[acq.hit])

DirectMissStep(call, acq) ==
    /\ ~IsVisited(acq.key)
    /\ acq.direct
    /\ acq.hit = 0
    /\ reads' = reads \o ReadLog(acq.key, "readFile", acq.attempts, acq.found, 0)
    /\ ReturnsAtOnce(call, acq, "failed", DirectMissResult)

\* the probe that finds a file raises, and nothing in resolveCode, in the
\* driver or in the batch compiler catches it
SearchRaiseStep(call, acq) ==
    /\ ~IsVisited(acq.key)
    /\ ~acq.direct
    /\ acq.hit # 0
    /\ ~CanRead(acq.found[acq.hit])
    /\ reads' = reads \o SubSeq(ReadLog(acq.key, "findFile", acq.attempts, acq.found, 0),
                                1, acq.hit)
    /\ calls' = Append(calls, CallRecord(call, acq, "raised"))
    /\ pathMap' = PathMapAtCall(call)
    /\ pc' = "crashed"

SearchHitStep(call, acq) ==
    /\ ~IsVisited(acq.key)
    /\ ~acq.direct
    /\ acq.hit # 0
    /\ CanRead(acq.found[acq.hit])
    /\ reads' = reads \o ReadLog(acq.key, "findFile", acq.attempts, acq.found, acq.hit)
    /\ StartsFrame(call, acq, switchToForwardSlashes(stripQuotes(acq.found[acq.hit])))

SearchMissStep(call, acq) ==
    /\ ~IsVisited(acq.key)
    /\ ~acq.direct
    /\ acq.hit = 0
    /\ reads' = reads \o ReadLog(acq.key, "findFile", acq.attempts, acq.found, 0)
    /\ ReturnsAtOnce(call, acq, "notfound", SearchMissResult)

\* an entry of the log: a step, and the path it is about when it has one
Step(name) == [step |-> name, path |-> <<>>]
StepOn(name, path) == [step |-> name, path |-> path]

\* what every step of a pass does besides: a line written through the error
\* reporter sets its flag; the disk, the command line and the watches stay
ErrorReporterFlag ==
    /\ hasErrors' = (hasErrors \/ stderr' # stderr)
    /\ log' = IF stderr' # stderr THEN Append(log, Step("error")) ELSE log
    /\ UNCHANGED <<unreadable, broken, compilationSettings, collation, activation,
                   notifications, resolvedFiles, watchers, newFiles, mergeI, mergeJ,
                   handles, passes, exitStatus, emitVars>>

\* a call whose key is already visited: nothing is done, true is returned
EnterVisited ==
    /\ CallPending
    /\ VisitedStep(TheCall, Acquisition(TheCall))
    /\ UNCHANGED <<files, contents, caseSensitive, entries, checked, visited, resolvedPaths, code,
                   reads, posts>>
    /\ ErrorReporterFlag

\* a call in the direct strategy, one of the reads succeeds
EnterDirectHit ==
    /\ CallPending
    /\ Len(stack) < MaxDepth
    /\ DirectHitStep(TheCall, Acquisition(TheCall))
    /\ UNCHANGED <<files, contents, caseSensitive, entries, checked, pc, entryIdx, resolvedPaths,
                   code, posts, errors, stderr>>
    /\ ErrorReporterFlag

\* a call in the direct strategy, all four reads fail: false is returned
EnterDirectMiss ==
    /\ CallPending
    /\ DirectMissStep(TheCall, Acquisition(TheCall))
    /\ UNCHANGED <<files, contents, caseSensitive, entries, checked, visited, resolvedPaths, code,
                   posts>>
    /\ ErrorReporterFlag

\* a call in the search strategy, one of the probes finds a file
EnterSearchHit ==
    /\ CallPending
    /\ Len(stack) < MaxDepth
    /\ SearchHitStep(TheCall, Acquisition(TheCall))
    /\ UNCHANGED <<files, contents, caseSensitive, entries, checked, pc, entryIdx, resolvedPaths,
                   code, posts, errors, stderr>>
    /\ ErrorReporterFlag

\* a call in the search strategy, findFile raises an exception
EnterSearchRaise ==
    /\ CallPending
    /\ SearchRaiseStep(TheCall, Acquisition(TheCall))
    /\ UNCHANGED <<files, contents, caseSensitive, entries, checked, entryIdx, stack, visited,
                   resolvedPaths, code, posts, errors, stderr>>
    /\ ErrorReporterFlag

\* a call in the search strategy, no probe finds a file
EnterSearchMiss ==
    /\ CallPending
    /\ SearchMissStep(TheCall, Acquisition(TheCall))
    /\ UNCHANGED <<files, contents, caseSensitive, entries, checked, visited, resolvedPaths, code,
                   posts>>
    /\ ErrorReporterFlag

\* a directive that points at its own file: an error, no call, and on to the
\* next directive
SelfReference ==
    /\ pc = "resolve"
    /\ stack # <<>>
    /\ AtDirective(Top)
    /\ IsSelfReference(Top, CurrentReference(Top))
    /\ errors' = Append(errors, ReferenceError(Top, "self"))
    /\ stderr' = Append(stderr, PostResolutionErrorLine(Top, "self"))
    /\ stack' = [stack EXCEPT ![Len(stack)].i = @ + 1, ![Len(stack)].selfErrors = @ + 1]
    /\ UNCHANGED <<files, contents, caseSensitive, entries, checked, pc, entryIdx, visited, pathMap,
                   resolvedPaths, code, calls, reads, posts>>
    /\ ErrorReporterFlag

\* all references of the innermost frame are done: the unit is dispatched and
\* the call returns true
PostResolution ==
    /\ pc = "resolve"
    /\ stack # <<>>
    /\ AtEnd(Top)
    /\ posts' = Append(posts,
           [key |-> Top.key, path |-> Top.sourceUnit.path, code |-> Top.sourceUnit,
            file |-> Top.resolvedFilePath,
            issued |-> Top.issued, selfErrors |-> Top.selfErrors,
            depth |-> Len(stack) - 1])
    /\ code' = PostResolutionCode(Top.sourceUnit.path)
    /\ resolvedPaths' = resolvedPaths \cup {getPathIdentifier(Top.sourceUnit.path)}
    /\ Returns(SubSeq(stack, 1, Len(stack) - 1), TRUE)
    /\ UNCHANGED <<files, contents, caseSensitive, entries, checked, visited, pathMap, calls, reads>>
    /\ ErrorReporterFlag

-----------------------------------------------------------------------------
(* BatchCompiler.resolve, after resolveCompilationEnvironment has returned *)

\* CommandLineHost.isResolved
isResolved(path) == getPathIdentifier(pathMap[path]) \in resolvedPaths

\* whether the path has one of the suffixes the compiler knows
\* a driver that takes every suffix for a known one
HasKnownExtension_Always(path) == TRUE

HasKnownExtension(path) ==
    isSTRFile(path) \/ isDSTRFile(path) \/ isTSFile(path) \/ isDTSFile(path)

\* the line BatchCompiler.resolve writes for an entry that is not resolved
EntryErrorLine(path) ==
    IF ~HasKnownExtension(path)
    THEN <<Text("Unknown extension for file: \""), PathText(path),
           Text("\". Only .ts and .d.ts extensions are allowed.")>>
    ELSE <<Text("Error reading file \""), PathText(path), Text("\": File not found")>>

\* one turn of the loop over the entries: an error line when the entry is not
\* resolved
CheckEntry ==
    /\ pc = "done"
    /\ checked < Len(entries)
    /\ checked' = checked + 1
    /\ stderr' = IF isResolved(entries[checked + 1]) THEN stderr
                 ELSE Append(stderr, EntryErrorLine(entries[checked + 1]))
    /\ UNCHANGED <<files, contents, caseSensitive, entries, pc, entryIdx, stack, visited,
                   pathMap, resolvedPaths, code, calls, reads, posts, errors>>
    /\ ErrorReporterFlag

Next ==
    \/ CheckEntry
    \/ EnterVisited
    \/ EnterDirectHit
    \/ EnterDirectMiss
    \/ EnterSearchHit
    \/ EnterSearchMiss
    \/ SelfReference
    \/ PostResolution

Spec == Init /\ [][Next]_vars

-----------------------------------------------------------------------------
(* String comparison of the host: Array.prototype.sort and localeCompare *)

\* the characters of paths in the order of their code units
CodeUnits ==
    <<"\"", "'", ".", "/",
      "A", "B", "C", "D", "E", "F", "G", "H", "I", "J", "K", "L", "M",
      "N", "O", "P", "Q", "R", "S", "T", "U", "V", "W", "X", "Y", "Z", "\\",
      "a", "b", "c", "d", "e", "f", "g", "h", "i", "j", "k", "l", "m",
      "n", "o", "p", "q", "r", "s", "t", "u", "v", "w", "x", "y", "z">>

CodeUnit(c) == CHOOSE n \in 1..Len(CodeUnits) : CodeUnits[n] = c

Characters == {CodeUnits[n] : n \in 1..Len(CodeUnits)}

\* the code unit of every character
CodeUnitWeight == [c \in Characters |-> CodeUnit(c)]

\* the weight of a character that a collation compares first: its letter,
\* whatever the case
LetterWeight ==
    [c \in Characters |-> CodeUnit(IF c \in DOMAIN UpperCaseMap THEN UpperCaseMap[c] ELSE c)]

\* the weight a collation compares when the letters are the same: lower case
\* before upper case
CaseWeight ==
    [c \in Characters |-> IF \E l \in DOMAIN UpperCaseMap : UpperCaseMap[l] = c THEN 1 ELSE 0]

RECURSIVE CompareBy(_, _, _)
\* the strings a and b compared character by character on a weight: negative,
\* zero or positive
CompareBy(weight, a, b) ==
    IF a = <<>> /\ b = <<>> THEN 0
    ELSE IF a = <<>> THEN -1
    ELSE IF b = <<>> THEN 1
    ELSE IF weight[Head(a)] < weight[Head(b)] THEN -1
    ELSE IF weight[Head(a)] > weight[Head(b)] THEN 1
    ELSE CompareBy(weight, Tail(a), Tail(b))

\* the comparison of Array.prototype.sort without a comparator: by code units
CompareCodeUnits(a, b) == CompareBy(CodeUnitWeight, a, b)

\* String.prototype.localeCompare: by code units on a host without collation,
\* else by letter first and by case when the letters are the same
localeCompare(a, b) ==
    IF collation = "ordinal" THEN CompareCodeUnits(a, b)
    ELSE IF CompareBy(LetterWeight, a, b) # 0 THEN CompareBy(LetterWeight, a, b)
    ELSE CompareBy(CaseWeight, a, b)

RECURSIVE InsertSorted(_, _)
InsertSorted(x, sorted) ==
    IF sorted = <<>> THEN <<x>>
    ELSE IF CompareCodeUnits(x, Head(sorted)) <= 0 THEN <<x>> \o sorted
    ELSE <<Head(sorted)>> \o InsertSorted(x, Tail(sorted))

RECURSIVE sort(_)
\* Array.prototype.sort without a comparator
sort(list) == IF list = <<>> THEN <<>> ELSE InsertSorted(Head(list), sort(Tail(list)))

-----------------------------------------------------------------------------
(* BatchCompiler.watchFiles: addWatcher and removeWatcher *)

\* the watcher map and the handles made so far, as one value
Watching == [watchers |-> watchers, handles |-> handles]

\* the handle ioHost.watchFile returns for a path, as the history keeps it: how
\* often it was closed, and during which notification it was made and closed
\* (0: by watchFiles)
NewHandle(filename) ==
    [path |-> filename, closed |-> 0, made |-> notifications, closedAt |-> -1]

\* an addWatcher that does not look whether the path has a watcher
addWatcher_Always(w, filename) ==
    [watchers |-> (filename :> (Len(w.handles) + 1)) @@ w.watchers,
     handles |-> Append(w.handles, NewHandle(filename))]

\* addWatcher: ioHost.watchFile is called unless the path has a watcher
addWatcher(w, filename) ==
    IF filename \notin DOMAIN w.watchers
    THEN [watchers |-> (filename :> (Len(w.handles) + 1)) @@ w.watchers,
          handles |-> Append(w.handles, NewHandle(filename))]
    ELSE w

\* a removeWatcher that deletes the handle without closing it
removeWatcher_Unclosed(w, filename) ==
    IF filename \in DOMAIN w.watchers
    THEN [watchers |-> [f \in DOMAIN w.watchers \ {filename} |-> w.watchers[f]],
          handles |-> w.handles]
    ELSE w

\* removeWatcher: the handle is closed and deleted when the path has a watcher
removeWatcher(w, filename) ==
    IF filename \in DOMAIN w.watchers
    THEN [watchers |-> [f \in DOMAIN w.watchers \ {filename} |-> w.watchers[f]],
          handles |-> [w.handles EXCEPT ![w.watchers[filename]].closed = @ + 1,
                                        ![w.watchers[filename]].closedAt = notifications]]
    ELSE w

RECURSIVE AddWatchers(_, _)
\* addWatcher for every path of the list, in order
AddWatchers(w, list) ==
    IF list = <<>> THEN w ELSE AddWatchers(addWatcher(w, Head(list)), Tail(list))

RECURSIVE RemoveWatchers(_, _)
\* removeWatcher for every path of the list, in order
RemoveWatchers(w, list) ==
    IF list = <<>> THEN w ELSE RemoveWatchers(removeWatcher(w, Head(list)), Tail(list))

\* the log entries of a call of addWatcher or removeWatcher for every path of
\* the list
StepsOn(name, list) == [n \in 1..Len(list) |-> StepOn(name, list[n])]

\* list.slice(from), from counted from 1
SliceFrom(list, from) == SubSeq(list, from, Len(list))

-----------------------------------------------------------------------------
(* BatchCompiler.batchCompile and the change handler of watchFiles *)

\* at most this many change notifications are delivered
MaxNotifications == 2

Z_TS == <<"/", "d", "/", "Z", ".", "t", "s">>
UD_TS == <<"/", "d", "/", "u", ".", "d", ".", "t", "s">>

\* every path a disk of the batch compiler may hold
BatchFilePool == {M_TS, U_TS, Z_TS, UD_TS}

\* the disks the batch compiler runs on: main alone; main with a directive to a
\* file whose name starts with a capital; main with two directives to util,
\* which does not compile, one to itself, one to a file that is not there, two
\* to itself without the suffix and in capitals, an import of util and an
\* import of a module that is not there; main with a directive to util where
\* only util's declaration file exists and cannot be read; main importing util
\* in that case;
\* a disk without main, the entry file
DiskPool ==
    { [files |-> {M_TS}, edges |-> <<>>, unreadable |-> {}, broken |-> {}],
      [files |-> {M_TS, Z_TS}, edges |-> <<Directive(M_TS, <<"Z", ".", "t", "s">>)>>,
       unreadable |-> {}, broken |-> {}],
      [files |-> {M_TS, U_TS},
       edges |-> <<Directive(M_TS, <<"u", ".", "t", "s">>),
                   Directive(M_TS, <<"m", ".", "t", "s">>),
                   Directive(M_TS, <<"u", ".", "t", "s">>),
                   Directive(M_TS, <<"q", ".", "t", "s">>),
                   Directive(M_TS, <<"m">>),
                   Directive(M_TS, <<"M", ".", "t", "s">>),
                   Import(M_TS, <<"u">>),
                   Import(M_TS, <<"q">>)>>,
       unreadable |-> {}, broken |-> {U_TS}],
      [files |-> {M_TS, UD_TS}, edges |-> <<Directive(M_TS, <<"u", ".", "t", "s">>)>>,
       unreadable |-> {UD_TS}, broken |-> {}],
      [files |-> {M_TS, UD_TS}, edges |-> <<Import(M_TS, <<"u">>)>>,
       unreadable |-> {UD_TS}, broken |-> {}],
      [files |-> {Z_TS}, edges |-> <<>>, unreadable |-> {}, broken |-> {}] }

\* the variables of the disk for a disk of the pool
DiskOf(disk) ==
    <<disk.files,
      [f \in BatchFilePool |-> [refs |-> PathsOf(disk.edges, f, "ref"),
                                imports |-> PathsOf(disk.edges, f, "import")]],
      disk.unreadable, disk.broken>>

\* the disk is a disk of the pool
DiskIs(disk) ==
    /\ files = DiskOf(disk)[1]
    /\ contents = DiskOf(disk)[2]
    /\ unreadable = DiskOf(disk)[3]
    /\ broken = DiskOf(disk)[4]

BatchInit ==
    /\ \E disk \in DiskPool : DiskIs(disk)
    /\ caseSensitive = FALSE
    /\ entries = << <<"m", ".", "t", "s">> >>
    /\ compilationSettings \in [exec : BOOLEAN, watch : BOOLEAN]
    /\ collation \in {"ordinal", "locale"}
    /\ pc = "resolve"
    /\ entryIdx = 1
    /\ stack = <<>>
    /\ visited = {}
    /\ pathMap = <<>>
    /\ resolvedPaths = {}
    /\ code = <<>>
    /\ calls = <<>>
    /\ reads = <<>>
    /\ posts = <<>>
    /\ errors = <<>>
    /\ stderr = <<>>
    /\ checked = 0
    /\ hasErrors = FALSE
    /\ BatchCompilerStarts

\* resolve() returns and its value becomes resolvedEnvironment; in the change
\* handler the paths of its units are collected and sorted for the merge
ResolveReturns ==
    /\ pc = "done"
    /\ checked = Len(entries)
    /\ passes' = Append(passes, [files |-> files, contents |-> contents,
                                 unreadable |-> unreadable, code |-> code,
                                 old |-> resolvedFiles, new |-> sort(code)])
    /\ log' = Append(log, Step("resolve"))
    /\ IF activation = "batchCompile"
       THEN /\ pc' = "compile"
            /\ UNCHANGED <<newFiles, mergeI, mergeJ>>
       ELSE /\ pc' = "merge"
            /\ newFiles' = sort(code)
            /\ mergeI' = 1
            /\ mergeJ' = 1
    /\ UNCHANGED <<diskVars, hostVars, entryIdx, stack, visited, pathMap, resolvedPaths,
                   code, calls, reads, posts, errors, stderr, checked, hasErrors,
                   activation, notifications, resolvedFiles, watchers, handles,
                   exitStatus>>
    /\ UNCHANGED emitVars

\* the line compile writes for a unit that does not compile
CompileErrorLine(path) == <<PathText(path), Text(": error: ")>>

\* the units of the resolved environment that do not compile
BrokenUnits == SelectSeq(code, LAMBDA path : resolvePath(path) \in broken)

\* a compile that takes the units of the environment that was given to resolve
CompiledUnits_Unresolved == entries

\* compile() goes through this.resolvedEnvironment.code
CompiledUnits == code

\* compile(): the units of the resolved environment are given to the compiler;
\* an error is written for each that does not compile
Compile ==
    /\ pc = "compile"
    /\ stderr' = stderr \o [n \in 1..Len(BrokenUnits) |-> CompileErrorLine(BrokenUnits[n])]
    /\ hasErrors' = (hasErrors \/ BrokenUnits # <<>>)
    /\ log' = Append(log, StepOn("compile", CompiledUnits))
                \o (IF BrokenUnits # <<>> THEN <<Step("error")>> ELSE <<>>)
    /\ pc' = "compiled"
    /\ UNCHANGED <<diskVars, hostVars, entryIdx, stack, visited, pathMap, resolvedPaths,
                   code, calls, reads, posts, errors, checked,
                   activation, notifications, resolvedFiles, watchers, newFiles, mergeI,
                   mergeJ, handles, passes, exitStatus>>
    /\ UNCHANGED emitVars

\* compile(): no unit has an error, and a file of the output cannot be written.
\* The writer's Close turns the failure into an emitter error, which compile
\* catches: it sets the flag of the error reporter itself and writes nothing
CompileEmitError ==
    /\ pc = "compile"
    /\ ~hasErrors
    /\ BrokenUnits = <<>>
    /\ hasErrors' = TRUE
    /\ log' = Append(log, StepOn("compile", CompiledUnits)) \o <<Step("emitError")>>
    /\ pc' = "compiled"
    /\ UNCHANGED <<diskVars, hostVars, entryIdx, stack, visited, pathMap, resolvedPaths,
                   code, calls, reads, posts, errors, stderr, checked,
                   activation, notifications, resolvedFiles, watchers, newFiles, mergeI,
                   mergeJ, handles, passes, exitStatus>>
    /\ UNCHANGED emitVars

\* where the activation goes after the compilation and the execution
AfterRun ==
    IF activation = "onWatchedFileChange" THEN "idle"
    ELSE IF compilationSettings.watch THEN "watchFiles" ELSE "quit"

\* a batch compiler that executes the output whatever the error flag says
ShouldRun_IgnoringErrors == compilationSettings.exec

\* if (!this.errorReporter.hasErrors) { if (this.compilationSettings.exec) ...
ShouldRun == ~hasErrors /\ compilationSettings.exec

\* the output is executed
Run ==
    /\ pc = "compiled"
    /\ ShouldRun
    /\ log' = Append(log, Step("run"))
    /\ pc' = AfterRun
    /\ UNCHANGED <<diskVars, hostVars, entryIdx, stack, visited, pathMap, resolvedPaths,
                   code, calls, reads, posts, errors, stderr, checked, hasErrors,
                   activation, notifications, resolvedFiles, watchers, newFiles, mergeI,
                   mergeJ, handles, passes, exitStatus>>
    /\ UNCHANGED emitVars

\* the output is not executed
SkipRun ==
    /\ pc = "compiled"
    /\ ~ShouldRun
    /\ pc' = AfterRun
    /\ UNCHANGED <<diskVars, hostVars, entryIdx, stack, visited, pathMap, resolvedPaths,
                   code, calls, reads, posts, errors, stderr, checked, hasErrors,
                   watchVars>>
    /\ UNCHANGED emitVars

\* a batch compiler that quits with the statuses the other way round
QuitStatus_Inverted == IF hasErrors THEN 0 ELSE 1

\* this.ioHost.quit(this.errorReporter.hasErrors ? 1 : 0)
QuitStatus == IF hasErrors THEN 1 ELSE 0

Quit ==
    /\ pc = "quit"
    /\ exitStatus' = QuitStatus
    /\ log' = Append(log, Step("quit"))
    /\ pc' = "exited"
    /\ UNCHANGED <<diskVars, hostVars, entryIdx, stack, visited, pathMap, resolvedPaths,
                   code, calls, reads, posts, errors, stderr, checked, hasErrors,
                   activation, notifications, resolvedFiles, watchers, newFiles, mergeI,
                   mergeJ, handles, passes>>
    /\ UNCHANGED emitVars

\* watchFiles: every unit path is stored and given a watcher, and the stored
\* list is sorted
WatchFiles ==
    /\ pc = "watchFiles"
    /\ resolvedFiles' = sort(code)
    /\ watchers' = AddWatchers(Watching, code).watchers
    /\ handles' = AddWatchers(Watching, code).handles
    /\ log' = log \o StepsOn("addWatcher", code)
    /\ pc' = "idle"
    /\ UNCHANGED <<diskVars, hostVars, entryIdx, stack, visited, pathMap, resolvedPaths,
                   code, calls, reads, posts, errors, stderr, checked, hasErrors,
                   activation, notifications, newFiles, mergeI, mergeJ, passes,
                   exitStatus>>
    /\ UNCHANGED emitVars

\* somebody changes the disk while the compiler waits
FileChanges ==
    /\ pc = "idle"
    /\ \E disk \in DiskPool :
          /\ DiskOf(disk) # diskVars
          /\ files' = DiskOf(disk)[1]
          /\ contents' = DiskOf(disk)[2]
          /\ unreadable' = DiskOf(disk)[3]
          /\ broken' = DiskOf(disk)[4]
    /\ UNCHANGED <<hostVars, passVars, watchVars>>
    /\ UNCHANGED emitVars

\* a resolver of the change handler that is not new
FreshVisited_Kept == visited

\* the visited set of a new CodeResolver
FreshVisited == {}

\* an error reporter whose reset() does nothing
FlagAfterReset_Kept == hasErrors

\* ErrorReporter.reset(): this.hasErrors = false
FlagAfterReset == FALSE

\* an open watcher delivers a change notification: onWatchedFileChange starts,
\* resets the error flag and calls resolve()
OnWatchedFileChange ==
    /\ pc = "idle"
    /\ DOMAIN watchers # {}
    /\ notifications < MaxNotifications
    /\ notifications' = notifications + 1
    /\ activation' = "onWatchedFileChange"
    /\ hasErrors' = FlagAfterReset
    /\ log' = <<Step("reset")>>
    /\ pc' = "resolve"
    /\ entryIdx' = 1
    /\ stack' = <<>>
    /\ visited' = FreshVisited
    /\ pathMap' = <<>>
    /\ resolvedPaths' = {}
    /\ code' = <<>>
    /\ checked' = 0
    /\ calls' = <<>>
    /\ reads' = <<>>
    /\ posts' = <<>>
    /\ errors' = <<>>
    /\ UNCHANGED <<diskVars, hostVars, stderr, resolvedFiles, watchers, newFiles, mergeI,
                   mergeJ, handles, passes, exitStatus>>
    /\ UNCHANGED emitVars

\* the merge loop runs: both lists have an element left
Merging ==
    /\ pc = "merge"
    /\ mergeI <= Len(resolvedFiles)
    /\ mergeJ <= Len(newFiles)

\* a merge that compares the new entry with the old one
compareResult_Reversed == localeCompare(newFiles[mergeJ], resolvedFiles[mergeI])

\* oldFiles[i].localeCompare(newFiles[j])
compareResult == localeCompare(resolvedFiles[mergeI], newFiles[mergeJ])

\* what the steps of the merge leave alone
MergeFrame ==
    UNCHANGED <<diskVars, hostVars, passVars, activation, notifications, resolvedFiles,
                newFiles, passes, exitStatus, emitVars>>

\* compareResult == 0: no change here
MergeEqual ==
    /\ Merging
    /\ compareResult = 0
    /\ mergeI' = mergeI + 1
    /\ mergeJ' = mergeJ + 1
    /\ UNCHANGED <<watchers, handles, log>>
    /\ MergeFrame

\* compareResult < 0: the entry of the old list was removed
MergeRemoved ==
    /\ Merging
    /\ compareResult < 0
    /\ watchers' = removeWatcher(Watching, resolvedFiles[mergeI]).watchers
    /\ handles' = removeWatcher(Watching, resolvedFiles[mergeI]).handles
    /\ log' = Append(log, StepOn("removeWatcher", resolvedFiles[mergeI]))
    /\ mergeI' = mergeI + 1
    /\ UNCHANGED mergeJ
    /\ MergeFrame

\* compareResult > 0: the entry of the new list was added
MergeAdded ==
    /\ Merging
    /\ compareResult > 0
    /\ watchers' = addWatcher(Watching, newFiles[mergeJ]).watchers
    /\ handles' = addWatcher(Watching, newFiles[mergeJ]).handles
    /\ log' = Append(log, StepOn("addWatcher", newFiles[mergeJ]))
    /\ mergeJ' = mergeJ + 1
    /\ UNCHANGED mergeI
    /\ MergeFrame

\* a handler that does not store the new list
StoredAfterMerge_Old == resolvedFiles

\* resolvedFiles = newFiles
StoredAfterMerge == newFiles

\* the loop is over: the rest of the old list is removed, the rest of the new
\* list is added, and the new list is stored
MergeRest ==
    /\ pc = "merge"
    /\ ~Merging
    /\ watchers' = AddWatchers(RemoveWatchers(Watching, SliceFrom(resolvedFiles, mergeI)),
                               SliceFrom(newFiles, mergeJ)).watchers
    /\ handles' = AddWatchers(RemoveWatchers(Watching, SliceFrom(resolvedFiles, mergeI)),
                              SliceFrom(newFiles, mergeJ)).handles
    /\ log' = log \o StepsOn("removeWatcher", SliceFrom(resolvedFiles, mergeI))
                   \o StepsOn("addWatcher", SliceFrom(newFiles, mergeJ))
                   \o <<StepOn("store", StoredAfterMerge)>>
    /\ resolvedFiles' = StoredAfterMerge
    /\ pc' = "compile"
    /\ UNCHANGED <<diskVars, hostVars, entryIdx, stack, visited, pathMap, resolvedPaths,
                   code, calls, reads, posts, errors, stderr, checked, hasErrors,
                   activation, notifications, newFiles, mergeI, mergeJ, passes,
                   exitStatus>>
    /\ UNCHANGED emitVars

BatchNext ==
    \/ Next
    \/ EnterSearchRaise
    \/ ResolveReturns
    \/ Compile
    \/ CompileEmitError
    \/ Run
    \/ SkipRun
    \/ Quit
    \/ WatchFiles
    \/ FileChanges
    \/ OnWatchedFileChange
    \/ MergeEqual
    \/ MergeRemoved
    \/ MergeAdded
    \/ MergeRest

BatchSpec == BatchInit /\ [][BatchNext]_vars

-----------------------------------------------------------------------------
(* What a pass did, read from its histories *)

\* the file a reference found in file f leads to when it is resolved, <<>> when
\* it leads to none
TargetOf(f, ref, search) ==
    LET acq == Acquisition([ref |-> ref, parent |-> dirName(f), search |-> search])
    IN  IF acq.hit = 0 THEN <<>> ELSE resolvePath(acq.found[acq.hit])

\* the directives of file f that the resolver follows (not the ones to itself)
FollowedDirectives(f) ==
    {i \in 1..Len(contents[f].refs) :
        ~IsSelfReference([resolvedFilePath |-> f, rootDir |-> dirName(f)],
                         contents[f].refs[i])}

\* the reference graph over the files on disk: f -> g when a reference that the
\* resolver follows in f leads to g
PhysicalEdges ==
    {e \in UNION {
              {<<f, TargetOf(f, contents[f].refs[i], FALSE)>> : i \in FollowedDirectives(f)}
                \cup {<<f, TargetOf(f, contents[f].imports[i], TRUE)>> :
                         i \in 1..Len(contents[f].imports)} :
              f \in FilePool} :
        e[2] # <<>>}

Successors(E, S) == {e[2] : e \in {d \in E : d[1] \in S}}

RECURSIVE Reachable(_, _, _)
Reachable(E, S, n) ==
    IF n = 0 THEN S ELSE Reachable(E, S \cup Successors(E, S), n - 1)

Acyclic(E) ==
    \A f \in FilePool : f \notin Reachable(E, Successors(E, {f}), Cardinality(FilePool))

\* the keys under which content was acquired
AcquiredKeys == {calls[n].key : n \in {m \in 1..Len(calls) : calls[m].outcome = "acquired"}}

CallsOf(key) == {n \in 1..Len(calls) : calls[n].key = key}
SuccessfulReadsOf(key) == {n \in 1..Len(reads) : reads[n].ok /\ reads[n].key = key}
PostsOfKey(key) == {n \in 1..Len(posts) : posts[n].key = key}
PostsOfFile(file) == {n \in 1..Len(posts) : posts[n].file = file}
SuccessfulReadsOfFile(file) == {n \in 1..Len(reads) : reads[n].ok /\ reads[n].file = file}

-----------------------------------------------------------------------------
(* The claims *)

\* the entry is main, main refers to util and util refers back to main
CycleCase ==
    /\ entries = << <<"m", ".", "t", "s">> >>
    /\ PhysicalEdges = {<<M_TS, U_TS>>, <<U_TS, M_TS>>}

\* when the reference graph is main -> util -> main and the pass is done, both
\* files have been passed to postResolution exactly once
CycleDispatchedOnce ==
    (pc = "done" /\ CycleCase) =>
        /\ Cardinality(PostsOfFile(M_TS)) = 1
        /\ Cardinality(PostsOfFile(U_TS)) = 1

\* the pass has a next step: a call to make, a self-reference to report or a unit
\* to dispatch
CanStep ==
    /\ pc = "resolve"
    /\ \/ stack # <<>> /\ AtEnd(Top)
       \/ stack # <<>> /\ AtDirective(Top) /\ IsSelfReference(Top, CurrentReference(Top))
       \/ /\ CallPending
          /\ \/ Len(stack) < MaxDepth
             \/ Acquisition(TheCall).key \in visited
             \/ Acquisition(TheCall).hit = 0

\* no key is being resolved by two frames at once: the recursion is never deeper
\* than there are keys
NoKeyTwiceOnStack ==
    \A i, j \in 1..Len(stack) : stack[i].key = stack[j].key => i = j

\* C1: every resolution pass terminates (each step adds to a history, the pass
\* never stops before the driver loop is done, and no key is resolved by two
\* nested frames), and when the reference graph is main -> util -> main both
\* files have been passed to postResolution exactly once when the pass is done.
C1_TerminatesAndCycleOnce ==
    /\ pc = "done" \/ CanStep
    /\ NoKeyTwiceOnStack
    /\ CycleDispatchedOnce

\* C2: a resolveCode call whose key is already in the visited set reads nothing,
\* searches nothing, dispatches no unit and no error, leaves the visited set as
\* it is, starts no frame and returns true (its caller reports no error).
C2_VisitedIsNoOp ==
    [][(CallPending /\ Acquisition(TheCall).key \in visited) =>
          /\ reads' = reads
          /\ posts' = posts
          /\ code' = code
          /\ errors' = errors
          /\ visited' = visited
          /\ Len(stack') = Len(stack)
          /\ Len(calls') = Len(calls) + 1]_vars

\* a call was answered from the visited set after the unit of its key was
\* dispatched
C2_Witness ==
    \E n \in 1..Len(calls) :
        /\ calls[n].outcome = "visited"
        /\ calls[n].inProgress = <<>>
        /\ PostsOfKey(calls[n].key) # {}

\* C3: a key that is resolved by two or more calls of one pass, and whose
\* content is acquired, has exactly one successful read and never more than one
\* postResolution call; when the pass is done it has exactly one.
C3_ResolvedTwiceReadOnce ==
    \A key \in AcquiredKeys :
        Cardinality(CallsOf(key)) >= 2 =>
            /\ Cardinality(SuccessfulReadsOf(key)) = 1
            /\ Cardinality(PostsOfKey(key)) <= 1
            /\ pc = "done" => Cardinality(PostsOfKey(key)) = 1

\* the pass is done and some key was resolved twice
C3_Witness ==
    /\ pc = "done"
    /\ \E key \in AcquiredKeys : Cardinality(CallsOf(key)) >= 2

\* C4: no file on disk is read successfully (by readFile, or found by findFile)
\* more than once in a pass, whatever the spellings of the references to it.
C4_EachFileReadOnce ==
    \A f \in FilePool : Cardinality(SuccessfulReadsOfFile(f)) <= 1

\* C5: no resolved file path is passed to postResolution twice, and when the
\* pass is done every file whose content was acquired has been passed to it.
C5_DispatchedOncePerFile ==
    /\ \A i, j \in 1..Len(posts) : posts[i].path = posts[j].path => i = j
    /\ pc = "done" =>
          \A n \in 1..Len(reads) : reads[n].ok => PostsOfFile(reads[n].file) # {}

NoDuplicateIds ==
    \A i, j \in 1..Len(code) :
        getPathIdentifier(code[i]) = getPathIdentifier(code[j]) => i = j

AppendOnly ==
    \/ code' = code
    \/ Len(code') = Len(code) + 1 /\ SubSeq(code', 1, Len(code)) = code

\* C6: at every point of a pass, and when it is done, no two units of the
\* resolved code sequence have the same path identifier, and a step leaves the
\* sequence as it is or appends one unit to it.
C6_NoDuplicatesAppendOnly == []NoDuplicateIds /\ [][AppendOnly]_vars

\* the pass is done, the dispatcher was given a unit it already had, and the
\* code sequence holds two units or more
C6_Witness ==
    /\ pc = "done"
    /\ Len(posts) > Len(code)
    /\ Len(code) >= 2

\* the resolveCode calls that the source has a frame on file f make: one for each
\* directive that is not to the file itself, in source order, then one for each
\* import, in source order
ExpectedIssued(f) ==
    LET followed(ref) ==
            ~IsSelfReference([resolvedFilePath |-> f, rootDir |-> dirName(f)], ref)
        directives == SelectSeq(contents[f].refs, followed)
    IN  [n \in 1..Len(directives) |-> [ref |-> directives[n], search |-> FALSE]]
          \o [n \in 1..Len(contents[f].imports) |->
                 [ref |-> contents[f].imports[n], search |-> TRUE]]

\* main has a directive to util and an import of lib, lib imports core
MainUtilLibCore ==
    /\ entries = << <<"m", ".", "t", "s">> >>
    /\ contents[M_TS] = [refs |-> << <<"u", ".", "t", "s">> >>, imports |-> << <<"l">> >>]
    /\ contents[L_TS] = [refs |-> <<>>, imports |-> << <<"c">> >>]
    /\ contents[U_TS] = [refs |-> <<>>, imports |-> <<>>]
    /\ contents[C_TS] = [refs |-> <<>>, imports |-> <<>>]

\* C7: a unit is passed to postResolution when its frame has called resolveCode
\* for all its directives in source order and then for all its imports in
\* source order, and a frame in progress has made a prefix of these calls; for
\* entry main with a directive to util and an import of lib, where lib imports
\* core, the units are dispatched in the order util, core, lib, main and the
\* code sequence is exactly these four.
C7_DirectivesImportsThenSelf ==
    /\ \A n \in 1..Len(posts) : posts[n].issued = ExpectedIssued(posts[n].file)
    /\ \A n \in 1..Len(stack) :
          /\ Len(stack[n].issued) <= Len(ExpectedIssued(stack[n].resolvedFilePath))
          /\ stack[n].issued =
                 SubSeq(ExpectedIssued(stack[n].resolvedFilePath), 1, Len(stack[n].issued))
    /\ (MainUtilLibCore /\ pc = "done") =>
          /\ [n \in 1..Len(posts) |-> posts[n].path] = <<U_TS, C_TS, L_TS, M_TS>>
          /\ code = <<U_TS, C_TS, L_TS, M_TS>>

\* the pass on main, util, lib and core is done
C7_Witness == MainUtilLibCore /\ pc = "done"

\* the place of a file in the code sequence, 0 when it is not there
PlaceInCode(file) ==
    IF \E n \in 1..Len(code) : resolvePath(code[n]) = file
    THEN CHOOSE n \in 1..Len(code) : resolvePath(code[n]) = file
    ELSE 0

\* C8: when the reference graph over the files on disk is acyclic, every unit of
\* the code sequence comes after every file that a reference of it resolves to;
\* and a unit whose reference was answered from the visited set because the
\* referenced unit was still being resolved (the reference closes a cycle) is in
\* the code sequence before that unit, when the pass is done.
C8_DependenciesFirst ==
    /\ Acyclic(PhysicalEdges) =>
          \A e \in PhysicalEdges :
              PlaceInCode(e[1]) # 0 =>
                  PlaceInCode(e[2]) # 0 /\ PlaceInCode(e[2]) < PlaceInCode(e[1])
    /\ pc = "done" =>
          \A n \in 1..Len(calls) :
              calls[n].inProgress # <<>> =>
                  /\ PlaceInCode(resolvePath(calls[n].caller)) # 0
                  /\ PlaceInCode(resolvePath(calls[n].caller))
                         < PlaceInCode(resolvePath(calls[n].inProgress))

\* the innermost frame is at a directive that resolves, as a rooted path or
\* joined to the frame's directory, to the frame's own resolved path
AtSelfDirective ==
    /\ pc = "resolve"
    /\ stack # <<>>
    /\ Top.i <= Len(Top.refs)
    /\ resolvePath(IF isRooted(Top.refs[Top.i]) THEN Top.refs[Top.i]
                   ELSE Top.rootDir \o <<SLASH>> \o Top.refs[Top.i]) = Top.resolvedFilePath

\* every reference of a dispatched unit was either called or reported as a
\* reference of the file to itself
AllReferencesProcessed ==
    \A n \in 1..Len(posts) :
        Len(posts[n].issued) + posts[n].selfErrors =
            Len(contents[posts[n].file].refs) + Len(contents[posts[n].file].imports)

\* C9: at a directive that resolves to the unit's own resolved path the resolver
\* reports exactly one error for it (a reference of the file to itself), makes
\* no resolveCode call and no read, and moves to the unit's next reference; the
\* unit's other references are all processed before it is dispatched.
C9_SelfReferenceReported ==
    /\ [][AtSelfDirective =>
             /\ errors' = Append(errors, [file |-> Top.resolvedFilePath,
                                          ref |-> Top.refs[Top.i], kind |-> "self"])
             /\ calls' = calls
             /\ reads' = reads
             /\ posts' = posts
             /\ visited' = visited
             /\ Len(stack') = Len(stack)
             /\ stack'[Len(stack)].i = Top.i + 1
             /\ stack'[Len(stack)].issued = Top.issued]_vars
    /\ []AllReferencesProcessed

\* a unit was dispatched after one self-reference error and a resolveCode call
\* for another of its references
C9_Witness ==
    \E n \in 1..Len(posts) :
        /\ posts[n].selfErrors = 1
        /\ posts[n].issued # <<>>
        /\ \E e \in 1..Len(errors) : errors[e].kind = "self" /\ errors[e].file = posts[n].file

\* the next statement is a resolveCode call in the direct strategy for a key that
\* is not visited, and none of the four paths it tries can be read
DirectMissPending ==
    /\ CallPending
    /\ Acquisition(TheCall).key \notin visited
    /\ Acquisition(TheCall).direct
    /\ Acquisition(TheCall).hit = 0

\* C10: when the four reads of the direct strategy fail, resolveCode makes four
\* failed reads, dispatches no unit, leaves the visited set as it is, starts no
\* frame and returns false: the only error is the one its caller reports for
\* the reference (none when the caller is the driver loop).
C10_DirectMissReturnsFalse ==
    [][DirectMissPending =>
          /\ visited' = visited
          /\ posts' = posts
          /\ code' = code
          /\ Len(stack') = Len(stack)
          /\ Len(reads') = Len(reads) + 4
          /\ \A n \in (Len(reads) + 1)..Len(reads') : ~reads'[n].ok
          /\ errors' = IF stack = <<>> THEN errors
                       ELSE Append(errors,
                                [file |-> Top.resolvedFilePath, ref |-> CurrentReference(Top),
                                 kind |-> IF AtDirective(Top) THEN "reference" ELSE "import"])]_vars

\* a directive's four reads failed and the referencing unit reported the error
C10_Witness ==
    \E n \in 1..Len(calls) :
        /\ calls[n].outcome = "failed"
        /\ calls[n].depth >= 1
        /\ \E e \in 1..Len(errors) : errors[e].kind = "reference" /\ errors[e].ref = calls[n].ref

\* the calls made for reference ref by a frame on file, with the given strategy
\* and outcome
CallsFrom(file, ref, search, outcome) ==
    {n \in 1..Len(calls) :
        /\ calls[n].depth >= 1
        /\ resolvePath(calls[n].caller) = file
        /\ calls[n].ref = ref
        /\ calls[n].search = search
        /\ calls[n].outcome = outcome}

\* the errors of one kind reported for reference ref of file
ErrorsFor(file, ref, kind) ==
    {n \in 1..Len(errors) :
        errors[n].file = file /\ errors[n].ref = ref /\ errors[n].kind = kind}

\* C11: the resolver has reported as many unresolved-reference errors naming a
\* file's resolved path and a directive's text as resolveCode calls for that
\* directive of that file returned false, and none for the calls that returned
\* true; when the pass is done, a unit with such an error was dispatched with all
\* its references processed (the call that acquired it returned true: its own
\* referencer reported nothing for it).
C11_FailedDirectiveReportedOnce ==
    /\ \A f \in FilePool : \A i \in 1..Len(contents[f].refs) :
          Cardinality(ErrorsFor(f, contents[f].refs[i], "reference"))
              = Cardinality(CallsFrom(f, contents[f].refs[i], FALSE, "failed"))
    /\ \A n \in 1..Len(errors) :
          errors[n].kind = "reference" =>
              CallsFrom(errors[n].file, errors[n].ref, FALSE, "failed") # {}
    /\ pc = "done" =>
          \A n \in 1..Len(errors) :
              errors[n].kind = "reference" =>
                  \E p \in 1..Len(posts) :
                      /\ posts[p].file = errors[n].file
                      /\ Len(posts[p].issued) + posts[p].selfErrors =
                             Len(contents[posts[p].file].refs)
                                 + Len(contents[posts[p].file].imports)

\* the pass is done; a unit had a directive that could not be resolved and
\* another reference after it, and was dispatched
C11_Witness ==
    /\ pc = "done"
    /\ \E n \in 1..Len(errors) : \E p \in 1..Len(posts) :
          /\ errors[n].kind = "reference"
          /\ posts[p].file = errors[n].file
          /\ Len(posts[p].issued) >= 2
          /\ posts[p].issued[1].ref = errors[n].ref

\* C12: for every import of a file, the referencing unit has reported as many
\* 'imported file cannot be resolved' errors as resolveCode calls for that
\* import found nothing under any of the names findFile was asked for (each
\* such call returns false and is reported exactly once).
C12_SearchMissReported ==
    \A f \in FilePool : \A i \in 1..Len(contents[f].imports) :
        Cardinality(ErrorsFor(f, contents[f].imports[i], "import"))
            = Cardinality(CallsFrom(f, contents[f].imports[i], TRUE, "notfound"))

\* a call is about to acquire its content by the direct strategy
DirectPending ==
    /\ CallPending
    /\ Acquisition(TheCall).key \notin visited
    /\ Acquisition(TheCall).direct

\* the readFile / findFile calls made by the step
ReadsOfStep == SubSeq(reads', Len(reads) + 1, Len(reads'))

\* the four paths of the direct strategy written out from the normalized path:
\* itself, the other source suffix, the legacy declaration suffix, the primary
\* declaration suffix
DirectOrder(normalizedPath) ==
    LET stem == trimModName(normalizedPath)
    IN  <<normalizedPath,
          stem \o (IF isSTRFile(normalizedPath) THEN EXT_TS ELSE EXT_STR),
          stem \o EXT_DSTR,
          stem \o EXT_DTS>>

\* every dispatched unit that was acquired by readFile has the path of the read
\* that succeeded for its key
DispatchedAsRead ==
    \A i \in 1..Len(posts) : \A n \in 1..Len(reads) :
        (reads[n].ok /\ reads[n].by = "readFile" /\ reads[n].key = posts[i].key)
            => posts[i].path = reads[n].arg

\* C13: a call in the direct strategy reads, in this order and stopping at the
\* first read that succeeds, the normalized path, the path under the other source
\* suffix, under .d.str and under .d.ts; the unit of the call gets, and is
\* dispatched with, the path of the read that succeeded.
C13_DirectProbeOrder ==
    /\ [][DirectPending =>
            LET order == DirectOrder(Acquisition(TheCall).normalized)
                new == ReadsOfStep
                n == Len(new)
            IN  /\ n \in 1..4
                /\ \A k \in 1..n : /\ new[k].by = "readFile"
                                   /\ new[k].arg = order[k]
                                   /\ new[k].ok = FileExists(order[k])
                /\ \A k \in 1..(n - 1) : ~new[k].ok
                /\ n < 4 => new[n].ok
                /\ IF new[n].ok
                   THEN /\ Len(stack') = Len(stack) + 1
                        /\ stack'[Len(stack')].path = new[n].arg
                   ELSE Len(stack') <= Len(stack)]_vars
    /\ []DispatchedAsRead

\* a unit was dispatched whose content was read at the second attempt, and some
\* call made all four attempts without success
C13_Witness ==
    /\ \E i \in 1..Len(posts) : \E n \in 2..Len(reads) :
          /\ reads[n].ok /\ reads[n].by = "readFile" /\ reads[n].key = posts[i].key
          /\ ~reads[n - 1].ok /\ reads[n - 1].key = reads[n].key
          /\ reads[n].arg = posts[i].path
          /\ reads[n].arg # reads[n - 1].arg
    /\ \E n \in 4..Len(reads) :
          \A k \in (n - 3)..n : ~reads[k].ok /\ reads[k].by = "readFile"
                                    /\ reads[k].key = reads[n].key

\* a call is about to acquire its content by the search strategy
SearchPending ==
    /\ CallPending
    /\ Acquisition(TheCall).key \notin visited
    /\ ~Acquisition(TheCall).direct

\* C14: a call in the search strategy passes to findFile, in this order and
\* stopping at the first probe that finds a file, the bare name with its source
\* suffix, the name under the other source suffix, under .d.str and under .d.ts.
C14_SearchProbeOrder ==
    [][SearchPending =>
          LET order == DirectOrder(Acquisition(TheCall).normalized)
              new == ReadsOfStep
              n == Len(new)
          IN  /\ n \in 1..4
              /\ \A k \in 1..n : new[k].by = "findFile" /\ new[k].arg = order[k]
              /\ \A k \in 1..(n - 1) : ~new[k].ok
              /\ n < 4 => new[n].ok]_vars

\* the calls a and b, a before b, whose normalized paths differ only in letter case
CaseVariants(a, b) ==
    /\ a < b
    /\ calls[a].normalized # calls[b].normalized
    /\ toLocaleUpperCase(calls[a].normalized) = toLocaleUpperCase(calls[b].normalized)

\* the successful reads made under a key of the visited set
SuccessfulReadsOfKey(key) == {n \in 1..Len(reads) : reads[n].ok /\ reads[n].key = key}

\* C15: of two calls whose normalized paths differ only in letter case, without
\* case-sensitive resolution both have the same key, and once the first acquired
\* its content the second is answered from the visited set, the content was read
\* once and the only unit dispatched for the key has the path read for the first
\* spelling; with case-sensitive resolution the keys differ, and the second is
\* answered from the visited set only if its own spelling was acquired before.
C15_CaseFolding ==
    \A a, b \in 1..Len(calls) :
        CaseVariants(a, b) =>
            IF ~caseSensitive
            THEN /\ calls[a].key = calls[b].key
                 /\ calls[a].outcome = "acquired" =>
                       /\ calls[b].outcome = "visited"
                       /\ Cardinality(SuccessfulReadsOfKey(calls[a].key)) = 1
                       /\ Cardinality(PostsOfKey(calls[a].key)) <= 1
                       /\ \A i \in PostsOfKey(calls[a].key) :
                             /\ trimModName(posts[i].path) = trimModName(calls[a].normalized)
                             /\ posts[i].path # calls[b].normalized
            ELSE /\ calls[a].key # calls[b].key
                 /\ calls[b].outcome = "visited" =>
                       \E c \in 1..(b - 1) : /\ calls[c].normalized = calls[b].normalized
                                             /\ calls[c].outcome = "acquired"
                 /\ calls[b].outcome # "visited" =>
                       \E n \in 1..Len(reads) : reads[n].key = calls[b].key

\* without case-sensitive resolution, a file was acquired and dispatched, and a
\* later call for the same path in another letter case was answered from the
\* visited set
C15_Witness ==
    /\ ~caseSensitive
    /\ \E a, b \in 1..Len(calls) :
          /\ CaseVariants(a, b)
          /\ calls[a].outcome = "acquired"
          /\ calls[b].outcome = "visited"
          /\ PostsOfKey(calls[a].key) # {}

\* with case-sensitive resolution, a file was acquired and a later call for the
\* same path in another letter case made reads of its own
CaseSensitiveVariantsRead ==
    /\ caseSensitive
    /\ \E a, b \in 1..Len(calls) :
          /\ CaseVariants(a, b)
          /\ calls[a].outcome = "acquired"
          /\ calls[b].outcome = "failed"

\* the calls made without search for a path that is neither relative nor rooted,
\* from a file in a directory
PlainDirectiveCalls ==
    {n \in 1..Len(calls) : /\ ~calls[n].search
                           /\ ~isRelative(calls[n].ref)
                           /\ ~isRooted(calls[n].ref)
                           /\ calls[n].parent # <<>>}

\* a path with the primary source suffix added when it has no source suffix
WithSourceSuffix(path) ==
    IF ~isSTRFile(path) /\ ~isTSFile(path) THEN path \o EXT_TS ELSE path

\* C16 (as the code has it): a reference path that is neither relative nor rooted
\* and is resolved with performSearch false from a file in a non-empty parentPath
\* is joined to parentPath with a slash to give the normalized path.
C16_PlainDirectiveJoined ==
    \A n \in PlainDirectiveCalls :
        calls[n].normalized
            = WithSourceSuffix(calls[n].parent \o <<SLASH>> \o calls[n].ref)

\* C16 (as stated): a reference path that is neither relative nor rooted and is
\* resolved with performSearch false from a file in a non-empty parentPath is
\* used as-is as the normalized path, without being joined to parentPath.
C16_PlainDirectiveAsIs ==
    \A n \in PlainDirectiveCalls :
        calls[n].normalized = WithSourceSuffix(calls[n].ref)

\* a directive that is neither relative nor rooted was resolved from a file in a
\* directory and its content acquired
C16_Witness ==
    \E n \in PlainDirectiveCalls :
        /\ calls[n].outcome = "acquired"
        /\ calls[n].depth >= 1

\* the file the directory search for a bare name finds from a directory, <<>>
\* when it finds none
SearchFound(parentPath, normalizedPath) ==
    LET found == SearchFinds(parentPath, SearchProbes(normalizedPath))
        hit == FirstHit(SearchHits(found))
    IN  IF hit = 0 THEN <<>> ELSE resolvePath(found[hit])

\* the calls a and b import the same bare name from different directories, and
\* the search from each directory finds a different file
SameNameTwoDirectories(a, b) ==
    /\ calls[a].search /\ calls[b].search
    /\ calls[a].ref = calls[b].ref
    /\ calls[a].parent # calls[b].parent
    /\ SearchFound(calls[a].parent, calls[a].normalized) # <<>>
    /\ SearchFound(calls[b].parent, calls[b].normalized) # <<>>
    /\ SearchFound(calls[a].parent, calls[a].normalized)
           # SearchFound(calls[b].parent, calls[b].normalized)

\* C17: when the pass is done and two files in different directories imported
\* the same bare module name, the search from each directory finding a different
\* file, both found files were read and dispatched.
C17_ImportRelativeToImporter ==
    pc = "done" =>
        \A a, b \in 1..Len(calls) :
            SameNameTwoDirectories(a, b) =>
                \A n \in {a, b} :
                    LET file == SearchFound(calls[n].parent, calls[n].normalized)
                    IN  /\ SuccessfulReadsOfFile(file) # {}
                        /\ PostsOfFile(file) # {}

\* the resolveCode calls made by the driver, one per entry
EntryCalls == SelectSeq(calls, LAMBDA c : c.depth = 0)

\* BatchCompiler.resolve has looked at every entry
AllEntriesChecked == pc = "done" /\ checked = Len(entries)

\* the path ends in one of the four source and declaration suffixes
EndsInKnownSuffix(path) ==
    \E ext \in {EXT_TS, EXT_STR, EXT_DTS, EXT_DSTR} :
        Len(path) > Len(ext) /\ Last(path, Len(ext)) = ext

\* how many times a line was written to the error output
Occurrences(line) == Cardinality({n \in 1..Len(stderr) : stderr[n] = line})

UnknownExtensionLine(path) ==
    <<Text("Unknown extension for file: \""), PathText(path),
      Text("\". Only .ts and .d.ts extensions are allowed.")>>

FileNotFoundLine(path) ==
    <<Text("Error reading file \""), PathText(path), Text("\": File not found")>>

\* C18: when BatchCompiler.resolve has looked at every entry, resolveCode was
\* called once for every entry, in order, whatever became of the entries before
\* it; and for each entry whose call failed exactly one entry error was written:
\* the unknown-extension message when the entry path ends in none of .ts, .str,
\* .d.ts, .d.str, and the file-not-found message otherwise, never the other one.
C18_EntryErrors ==
    AllEntriesChecked =>
        /\ Len(EntryCalls) = Len(entries)
        /\ \A i \in 1..Len(entries) :
              /\ EntryCalls[i].ref = switchToForwardSlashes(resolvePath(entries[i]))
              /\ EntryCalls[i].outcome = "failed" =>
                    IF EndsInKnownSuffix(entries[i])
                    THEN /\ Occurrences(FileNotFoundLine(entries[i])) = 1
                         /\ Occurrences(UnknownExtensionLine(entries[i])) = 0
                    ELSE /\ Occurrences(UnknownExtensionLine(entries[i])) = 1
                         /\ Occurrences(FileNotFoundLine(entries[i])) = 0

\* every entry was looked at; the first entry, with an unknown suffix, failed
\* and has its error, and entries after it were acquired
C18_Witness ==
    /\ AllEntriesChecked
    /\ Len(EntryCalls) >= 3
    /\ EntryCalls[1].outcome = "failed"
    /\ ~EndsInKnownSuffix(entries[1])
    /\ Occurrences(UnknownExtensionLine(entries[1])) = 1
    /\ \E i \in 2..Len(entries) : EntryCalls[i].outcome = "acquired"

\* every entry was looked at; an entry with a source suffix failed and has the
\* file-not-found error
FileNotFoundReported ==
    /\ AllEntriesChecked
    /\ \E i \in 1..Len(entries) :
          /\ EntryCalls[i].outcome = "failed"
          /\ EndsInKnownSuffix(entries[i])
          /\ Occurrences(FileNotFoundLine(entries[i])) = 1

\* the entry errors written for an entry path
EntryErrorsOf(path) ==
    Occurrences(UnknownExtensionLine(path)) + Occurrences(FileNotFoundLine(path))

\* C19: when BatchCompiler.resolve has looked at every entry, an entry whose
\* content was acquired and dispatched during the pass (at its own path, after
\* the default suffix was appended, or through the suffix fallback chain) has no
\* entry error, and every entry that was not acquired has exactly one.
C19_ErrorsOnlyForUnacquired ==
    AllEntriesChecked =>
        \A i \in 1..Len(entries) :
            IF /\ EntryCalls[i].outcome \in {"acquired", "visited"}
               /\ PostsOfKey(EntryCalls[i].key) # {}
            THEN EntryErrorsOf(entries[i]) = 0
            ELSE EntryErrorsOf(entries[i]) = 1

\* the line is file(line,column): message for the error, line and column being
\* numbers
IsUserErrorLine(line, error) ==
    /\ Len(line) = 9
    /\ line[1] = PathText(error.file)
    /\ line[2] = Text("(")
    /\ line[3].k = "number"
    /\ line[4] = Text(",")
    /\ line[5].k = "number"
    /\ line[6] = Text(")")
    /\ line[7] = Text(":")
    /\ line[8] = Text(" ")
    /\ line[9] = Message(error.kind, error.ref)

\* C20: every error the resolver gave to postResolutionError is on the error
\* output as <file>(<line>,<column>): <message>, in the order given, with the
\* file and the message text of the error and numbers for line and column.
C20_ErrorLineFormat ==
    /\ Len(stderr) >= Len(errors)
    /\ \A n \in 1..Len(errors) : IsUserErrorLine(stderr[n], errors[n])

-----------------------------------------------------------------------------
(* Claims about the batch compiler and its watch mode *)

\* the elements of a sequence
Elements(list) == {list[n] : n \in 1..Len(list)}

\* the list is in the order of the comparison the merge uses
SortedForMerge(list) ==
    \A n \in 1..(Len(list) - 1) : localeCompare(list[n], list[n + 1]) < 0

\* every merge so far was given lists in the order of its comparison
MergesWellSorted ==
    \A n \in 1..Len(passes) : SortedForMerge(passes[n].old) /\ SortedForMerge(passes[n].new)

\* C21: whenever the compiler waits for a change (after watchFiles has set up
\* the watchers, and after every change notification that was handled to its
\* end), and every merge so far was given lists in the order of localeCompare,
\* the paths with an open watcher are the paths of the stored list and are the
\* paths of the units of the latest resolved environment.
C21_WatchersAreResolvedFiles ==
    (pc = "idle" /\ MergesWellSorted) =>
        /\ DOMAIN watchers = Elements(resolvedFiles)
        /\ Elements(resolvedFiles) = Elements(code)

\* on a host whose localeCompare is a collation, a change notification was
\* handled to its end, the merge was given well sorted lists and removed a
\* watcher; at least one watcher stays open
C21_Witness ==
    /\ pc = "idle"
    /\ notifications >= 1
    /\ collation = "locale"
    /\ MergesWellSorted
    /\ \E n \in 1..Len(handles) : handles[n].closed = 1
    /\ DOMAIN watchers # {}

\* the places of the log where the step was made
StepsNamed(name) == {n \in 1..Len(log) : log[n].step = name}

\* the paths the step was made on
PathsOfSteps(name) == {log[n].path : n \in StepsNamed(name)}

\* the change handler has merged the lists and stored the new one
Reconciled == activation = "onWatchedFileChange" /\ StepsNamed("store") # {}

\* the lists of the merge of the running change handler
OldList == passes[Len(passes)].old
NewList == passes[Len(passes)].new

\* C22: when the change handler has merged an old and a new list that were both
\* in the order of localeCompare, it has called removeWatcher once for each path
\* of the old list that is not in the new one and for no other path, addWatcher
\* once for each path of the new list that is not in the old one and for no other
\* path, and neither for a path of both lists.
C22_MinimalReconciliation ==
    (Reconciled /\ SortedForMerge(OldList) /\ SortedForMerge(NewList)) =>
        /\ PathsOfSteps("removeWatcher") = Elements(OldList) \ Elements(NewList)
        /\ PathsOfSteps("addWatcher") = Elements(NewList) \ Elements(OldList)
        /\ Cardinality(StepsNamed("removeWatcher"))
               = Cardinality(Elements(OldList) \ Elements(NewList))
        /\ Cardinality(StepsNamed("addWatcher"))
               = Cardinality(Elements(NewList) \ Elements(OldList))

\* the first change handler has merged well sorted lists: a path was removed, a
\* path was added, and a path of both lists has the watcher watchFiles gave it
C22_Witness ==
    /\ Reconciled
    /\ notifications = 1
    /\ SortedForMerge(OldList) /\ SortedForMerge(NewList)
    /\ PathsOfSteps("removeWatcher") # {}
    /\ PathsOfSteps("addWatcher") # {}
    /\ \E path \in Elements(OldList) \cap Elements(NewList) :
          /\ path \in DOMAIN watchers
          /\ handles[watchers[path]].closed = 0
          /\ watchers[path] <= Len(OldList)

\* the merge is about to call addWatcher for a path that has a watcher
AddsWatchedPath ==
    /\ Merging
    /\ compareResult > 0
    /\ newFiles[mergeJ] \in DOMAIN watchers

\* the merge is about to call removeWatcher for a path that has no watcher
RemovesUnwatchedPath ==
    /\ Merging
    /\ compareResult < 0
    /\ resolvedFiles[mergeI] \notin DOMAIN watchers

\* the handles made for a path
HandlesOf(path) == {n \in 1..Len(handles) : handles[n].path = path}

\* C23: a call of addWatcher for a path that has a watcher, and a call of
\* removeWatcher for a path that has none, leave the watcher map and every handle
\* as they are (no watchFile, no close) and write no error.
C23_WatcherCallsAreNoOps ==
    [][(AddsWatchedPath \/ RemovesUnwatchedPath) =>
          /\ watchers' = watchers
          /\ handles' = handles
          /\ stderr' = stderr
          /\ hasErrors' = hasErrors]_vars

\* the running change handler has called addWatcher for a path that has a
\* watcher: its handles were all made before, and the one of the map is open
C23_Witness ==
    /\ activation = "onWatchedFileChange"
    /\ \E n \in StepsNamed("addWatcher") :
          /\ log[n].path \in DOMAIN watchers
          /\ handles[watchers[log[n].path]].closed = 0
          /\ \A h \in HandlesOf(log[n].path) : handles[h].made < notifications

\* the running change handler has called removeWatcher for a path that had no
\* watcher: its handles were all closed before
RemovedUnwatchedPath ==
    /\ activation = "onWatchedFileChange"
    /\ \E n \in StepsNamed("removeWatcher") :
          \A h \in HandlesOf(log[n].path) :
              handles[h].closed = 1 /\ handles[h].closedAt < notifications

\* the handle is the one the watcher map holds for its path
Stored(h) == handles[h].path \in DOMAIN watchers /\ watchers[handles[h].path] = h

\* C24: every handle ioHost.watchFile ever returned is stored in the watcher map
\* under its path and was never closed, or is not in the map and was closed
\* exactly once.
C24_HandleStoredOrClosedOnce ==
    \A h \in 1..Len(handles) :
        \/ Stored(h) /\ handles[h].closed = 0
        \/ ~Stored(h) /\ handles[h].closed = 1

\* after two change notifications a handle made by watchFiles is still stored, a
\* handle was closed during the first notification, and a handle made during a
\* notification was closed during the second
C24_Witness ==
    /\ pc = "idle"
    /\ notifications = 2
    /\ \E h \in 1..Len(handles) : Stored(h) /\ handles[h].made = 0
    /\ \E h \in 1..Len(handles) : handles[h].closed = 1 /\ handles[h].closedAt = 1
    /\ \E h \in 1..Len(handles) :
          handles[h].made >= 1 /\ handles[h].closed = 1 /\ handles[h].closedAt = 2

\* the filesystem state a finished pass resolved on
DiskOfPass(n) == <<passes[n].files, passes[n].contents, passes[n].unreadable>>

\* C25: the pass of a change notification starts from the entry list with a new
\* resolver and a new host, so the units it resolves, and the sorted list made of
\* them, are those of every other pass on the same filesystem state, the initial
\* pass of batchCompile included, whatever the passes in between resolved.
C25_FreshResolutionPerNotification ==
    \A n \in 1..Len(passes) : \A k \in 1..Len(passes) :
        DiskOfPass(n) = DiskOfPass(k) =>
            /\ passes[n].code = passes[k].code
            /\ passes[n].new = passes[k].new

\* the second notification resolved, on the filesystem state of the initial pass,
\* an entry together with a unit it refers to, after the first notification had
\* resolved other units on another state
C25_Witness ==
    /\ Len(passes) = 3
    /\ DiskOfPass(3) = DiskOfPass(1)
    /\ DiskOfPass(2) # DiskOfPass(1)
    /\ Len(passes[3].code) >= 2
    /\ Elements(passes[2].code) # Elements(passes[1].code)

\* the place of a logged step in the body of onWatchedFileChange; a write to the
\* error reporter has no place of its own
Phase(name) ==
    CASE name = "reset" -> 1
      [] name = "resolve" -> 2
      [] name \in {"removeWatcher", "addWatcher"} -> 3
      [] name = "store" -> 4
      [] name = "compile" -> 5
      [] name = "run" -> 6
      [] OTHER -> 0

\* the steps of the current activation without the writes to the error reporter
StepsTaken == SelectSeq(log, LAMBDA s : s.step \notin {"error", "emitError"})

\* onWatchedFileChange has returned
NotificationDone == pc = "idle" /\ activation = "onWatchedFileChange"

\* during a change notification the logged steps come in the order reset,
\* resolve, watcher calls, store, compile, run; when the handler has returned
\* there was exactly one of each of reset, resolve, store and compile
StepsInOrder ==
    activation = "onWatchedFileChange" =>
        /\ log # <<>> /\ log[1].step = "reset"
        /\ \A n \in 1..(Len(StepsTaken) - 1) :
              Phase(StepsTaken[n].step) <= Phase(StepsTaken[n + 1].step)
        /\ \A name \in {"reset", "resolve", "store", "compile", "run"} :
              Cardinality(StepsNamed(name)) <= 1
        /\ NotificationDone =>
              \A name \in {"reset", "resolve", "store", "compile"} :
                  Cardinality(StepsNamed(name)) = 1

RunSuppressedByError ==
    /\ NotificationDone
    /\ compilationSettings.exec
    /\ StepsNamed("run") = {}

\* resolve() has returned to batchCompile or to the change handler
PassReturned == pc \notin {"resolve", "done", "crashed"}

\* the reads of the current pass that gave a content
AcquiredFiles == {reads[n].file : n \in {k \in 1..Len(reads) : reads[k].ok}}

\* the calls of the current pass that returned without a content
ExpectedMisses == {n \in 1..Len(calls) : calls[n].outcome \in {"failed", "notfound"}}

\* C27: a pass is left early only by a read that raised something other than not
\* found; a pass that returned has no frame left, its environment holds, once
\* each, exactly the units whose content a read acquired, and compile, once it
\* was invoked, was invoked once and on these units.
C27_FailuresDoNotAbortThePass ==
    /\ pc = "crashed" => reads # <<>> /\ reads[Len(reads)].raised = "other"
    /\ PassReturned =>
          /\ stack = <<>>
          /\ {resolvePath(code[n]) : n \in 1..Len(code)} = AcquiredFiles
          /\ \A a, b \in 1..Len(code) :
                getPathIdentifier(code[a]) = getPathIdentifier(code[b]) => a = b
          /\ Cardinality(StepsNamed("compile")) <= 1
          /\ \A n \in StepsNamed("compile") : log[n].path = code
          /\ pc \in {"compiled", "quit", "watchFiles", "idle", "exited"} =>
                StepsNamed("compile") # {}

\* compile was invoked on the two units that were acquired, in a pass where a
\* directive and an import were not resolved
C27_Witness ==
    /\ pc = "compiled"
    /\ \E n \in ExpectedMisses : calls[n].outcome = "failed"
    /\ \E n \in ExpectedMisses : calls[n].outcome = "notfound"
    /\ Len(code) = 2
    /\ StepsNamed("compile") # {}

\* compile was invoked on an empty environment: the entry file was not found
CompiledNothing ==
    /\ pc = "compiled"
    /\ code = <<>>
    /\ stderr # <<>>
    /\ StepsNamed("compile") # {}

\* the writes to the error reporter that resolve() made: those logged before the
\* compile step
ResolutionErrors ==
    {n \in StepsNamed("error") : \A c \in StepsNamed("compile") : n < c}

\* C28: when batchCompile has quit (the watch flag is not set) and a line was
\* written to the error reporter during resolution, the error flag is set, the
\* output was not run, exec set or not, and the status is 1; the status is 0
\* only if nothing at all was written to the error reporter.
C28_ExitStatusReflectsErrors ==
    pc = "exited" =>
        /\ ~compilationSettings.watch
        /\ exitStatus \in {0, 1}
        /\ ResolutionErrors # {} =>
              /\ hasErrors
              /\ StepsNamed("run") = {}
              /\ exitStatus = 1
        /\ exitStatus = 0 => stderr = <<>> /\ StepsNamed("error") = {}

\* batchCompile has quit with status 1 without running the output, exec being
\* set; resolution reported an unresolved directive and compile reported nothing
C28_Witness ==
    /\ pc = "exited"
    /\ compilationSettings.exec
    /\ errors # <<>>
    /\ ResolutionErrors = StepsNamed("error")
    /\ StepsNamed("run") = {}
    /\ exitStatus = 1

\* batchCompile has run the output and quit with status 0
QuitZeroAfterRun ==
    /\ pc = "exited"
    /\ StepsNamed("run") # {}
    /\ exitStatus = 0

\* batchCompile has quit with status 1: the only line written is that of the
\* entry file that was not found
QuitOneWithoutEntry ==
    /\ pc = "exited"
    /\ errors = <<>>
    /\ code = <<>>
    /\ Len(stderr) = 1
    /\ exitStatus = 1

\* the reads that raised something other than not found where resolveCode has
\* no handler of its own for the attempt: the last read of the direct strategy
\* and every probe of the search strategy
UnexpectedExceptions ==
    {n \in 1..Len(reads) :
        /\ reads[n].raised = "other"
        /\ reads[n].by = "findFile" \/ reads[n].attempt = 4}

\* C29: a read that raised something other than not found, as the last attempt
\* of the direct strategy or as a probe of the search strategy, is the last read
\* that was made: the exception left resolveCode and the pass.
C29_UnexpectedExceptionsPropagate ==
    \A n \in UnexpectedExceptions : pc = "crashed" /\ n = Len(reads)

\* it does when the read is a probe of the search strategy
SearchExceptionsPropagate ==
    \A n \in UnexpectedExceptions :
        reads[n].by = "findFile" => pc = "crashed" /\ n = Len(reads)

\* a probe of the search strategy raised
SearchProbeRaised == \E n \in UnexpectedExceptions : reads[n].by = "findFile"

\* after a change notification the paths with an open watcher are the paths of
\* the new list
WatchersAfterReconciliation ==
    NotificationDone => DOMAIN watchers = Elements(NewList)

\* C30: on every host, every list given to a merge and every list stored for the
\* next one is in the order of localeCompare, and after every change
\* notification the open watchers are exactly the paths of the new list.
C30_SortedForTheMergeOnEveryHost ==
    /\ \A n \in 1..Len(passes) :
          SortedForMerge(passes[n].old) /\ SortedForMerge(passes[n].new)
    /\ WatchersAfterReconciliation

\* on a host whose localeCompare compares code units it is so
SortedForTheMergeOnOrdinalHost ==
    collation = "ordinal" => C30_SortedForTheMergeOnEveryHost

\* such a host has handled a notification that removed a watcher and left one
OrdinalHostReconciled ==
    /\ NotificationDone
    /\ collation = "ordinal"
    /\ StepsNamed("removeWatcher") # {}
    /\ DOMAIN watchers # {}

------------------------------------------------------------------------------
(* TextWriter (src/src/compiler/referenceResolution.ts) *)

\* TypeScript.newLine(), as one piece of text
NewLineText == "\n"

\* new TextWriter(ioHost, path, writeByteOrderMark); a string is the sequence of
\* its pieces; written is the history of the calls
TextWriter == [contents |-> <<>>, onNewLine |-> TRUE, written |-> <<>>]

\* Write(s)
Write(w, s) ==
    [contents |-> w.contents \o s, onNewLine |-> FALSE,
     written |-> Append(w.written, [op |-> "Write", s |-> s])]

\* a WriteLine that forgets the newline string
WriteLine_Unterminated(w, s) ==
    [contents |-> w.contents \o s, onNewLine |-> TRUE,
     written |-> Append(w.written, [op |-> "WriteLine", s |-> s])]

\* WriteLine(s)
WriteLine(w, s) ==
    [contents |-> w.contents \o s \o <<NewLineText>>, onNewLine |-> TRUE,
     written |-> Append(w.written, [op |-> "WriteLine", s |-> s])]

\* what the state of the host and of the caller is before a writer is used:
\* nothing was given to writeFile, nothing was raised
NothingWritten == [writeFile |-> <<>>, raised |-> <<>>, closes |-> 0]

\* Close(): the contents go to ioHost.writeFile; when that raises, the exception
\* is caught and Emitter.throwEmitterError raises an emitter error instead
Close(w, io, fails) ==
    [writeFile |-> Append(io.writeFile, [contents |-> w.contents, failed |-> fails]),
     raised |-> IF fails THEN Append(io.raised, "EmitError") ELSE io.raised,
     closes |-> io.closes + 1]

\* at most this many calls are made on a writer that is used on its own
MaxWriterCalls == 4

\* the strings written to such a writer: the empty string, a and bc
WrittenStrings == { <<>>, <<"a">>, <<"b", "c">> }

\* the resolver and the batch compiler do nothing while a writer or an emitter
\* is used on its own
CompilerIdle ==
    /\ files = {}
    /\ contents = <<>>
    /\ unreadable = {}
    /\ broken = {}
    /\ caseSensitive = FALSE
    /\ entries = <<>>
    /\ compilationSettings = [exec |-> FALSE, watch |-> FALSE]
    /\ collation = "ordinal"
    /\ pc = "emit"
    /\ entryIdx = 1
    /\ stack = <<>>
    /\ visited = {}
    /\ pathMap = <<>>
    /\ resolvedPaths = {}
    /\ code = <<>>
    /\ calls = <<>>
    /\ reads = <<>>
    /\ posts = <<>>
    /\ errors = <<>>
    /\ stderr = <<>>
    /\ checked = 0
    /\ hasErrors = FALSE
    /\ activation = "emit"
    /\ notifications = 0
    /\ resolvedFiles = <<>>
    /\ watchers = <<>>
    /\ newFiles = <<>>
    /\ mergeI = 1
    /\ mergeJ = 1
    /\ handles = <<>>
    /\ log = <<>>
    /\ passes = <<>>
    /\ exitStatus = "none"

CompilerStaysIdle == UNCHANGED <<diskVars, hostVars, passVars, watchVars>>

\* a writer on its own: emitter holds the writer, walker what the host received
WriterInit ==
    /\ CompilerIdle
    /\ emitter = TextWriter
    /\ walker = NothingWritten

WriterCanBeCalled == Len(emitter.written) + walker.closes < MaxWriterCalls

WriterWrite ==
    /\ WriterCanBeCalled
    /\ \E s \in WrittenStrings : emitter' = Write(emitter, s)
    /\ UNCHANGED walker
    /\ CompilerStaysIdle

WriterWriteLine ==
    /\ WriterCanBeCalled
    /\ \E s \in WrittenStrings : emitter' = WriteLine(emitter, s)
    /\ UNCHANGED walker
    /\ CompilerStaysIdle

\* Close(), with a host whose writeFile succeeds or raises
WriterClose ==
    /\ WriterCanBeCalled
    /\ \E fails \in BOOLEAN : walker' = Close(emitter, walker, fails)
    /\ UNCHANGED emitter
    /\ CompilerStaysIdle

WriterNext == WriterWrite \/ WriterWriteLine \/ WriterClose

WriterSpec == WriterInit /\ [][WriterNext]_vars

------------------------------------------------------------------------------
(* DeclarationEmitter (src/src/compiler/referenceResolution.ts) *)

\* null where an AST or a Document is expected; nodes and documents are
\* numbered from 1
NoAst == 0

\* a node of a syntax tree: its type, its name, its children in source order
\* and what the flags and the symbol of its declaration say. members stands for
\* the list a node owns (module elements, members, the declaration of a
\* variable statement, declarators): lists are walked through.
Ast(nodeType, name, members) ==
    [nodeType |-> nodeType, name |-> name, members |-> members,
     exported |-> FALSE, visible |-> FALSE, ambient |-> FALSE,
     access |-> "", static |-> FALSE,
     wholeFile |-> FALSE, dynamic |-> FALSE, enum |-> FALSE,
     objectTypeLiteral |-> FALSE]

\* new DeclarationEmitter(emittingFileName, document, compiler); containers,
\* asserted and referenced are histories: the pushes and pops, the conditions
\* given to CompilerDiagnostics.assert, the documents written as references
DeclarationEmitter ==
    [declFile |-> TextWriter,
     indenter |-> 0,
     declarationContainerStack |-> <<>>,
     isDottedModuleName |-> <<>>,
     dottedModuleEmit |-> <<>>,
     ignoreCallbackAst |-> NoAst,
     varListCount |-> 0,
     emittedReferencePaths |-> FALSE,
     containers |-> <<>>,
     asserted |-> <<>>,
     referenced |-> <<>>]

\* what a callback gives back: the emitter after it and the value returned
CallbackReturns(e, goChildren) == [emitter |-> e, goChildren |-> goChildren, raised |-> FALSE]

\* a callback that raised: the emitter as it was left
CallbackRaises(e) == [emitter |-> e, goChildren |-> FALSE, raised |-> TRUE]

\* one step of indentation, as text
IndentText == "    "

\* getIndentString(): indenter.getIndent()
getIndentString(e) == [n \in 1..e.indenter |-> IndentText]

\* emitIndent()
emitIndent(e) == [e EXCEPT !.declFile = Write(@, getIndentString(e))]

\* getAstDeclarationContainer(): undefined on an empty stack
getAstDeclarationContainer(e) ==
    IF e.declarationContainerStack = <<>> THEN NoAst
    ELSE e.declarationContainerStack[Len(e.declarationContainerStack)]

\* emitDottedModuleName()
emitDottedModuleName(e) ==
    IF e.isDottedModuleName = <<>> THEN FALSE
    ELSE e.isDottedModuleName[Len(e.isDottedModuleName)]

\* canEmitSignature(declFlags, declAST, canEmitGlobalAmbientDecl,
\* useDeclarationContainerTop)
canEmitSignature(e, c, declAST, canEmitGlobalAmbientDecl, useDeclarationContainerTop) ==
    LET container == IF useDeclarationContainerTop
                     THEN c.nodes[getAstDeclarationContainer(e)]
                     ELSE c.nodes[e.declarationContainerStack[Len(e.declarationContainerStack) - 1]]
        pullDecl == c.nodes[declAST]
    IN  IF container.nodeType = "ModuleDeclaration" /\ ~pullDecl.exported
        THEN pullDecl.visible
        ELSE ~(~canEmitGlobalAmbientDecl /\ container.nodeType = "Script" /\ pullDecl.ambient)

\* a canEmitPrePostAstSignature that does not remember the rejected node
canEmitPrePostAstSignature_Forgetful(e, c, astWithPrePostCallback, preCallback) ==
    IF e.ignoreCallbackAst # NoAst
    THEN CallbackReturns([e EXCEPT !.asserted = Append(@, e.ignoreCallbackAst # astWithPrePostCallback),
                           !.ignoreCallbackAst = NoAst], FALSE)
    ELSE IF preCallback /\ ~canEmitSignature(e, c, astWithPrePostCallback, TRUE, preCallback)
         THEN CallbackReturns(e, FALSE)
         ELSE CallbackReturns(e, TRUE)

\* canEmitPrePostAstSignature(declFlags, astWithPrePostCallback, preCallback);
\* the assertion changes nothing but the history of assertions
canEmitPrePostAstSignature(e, c, astWithPrePostCallback, preCallback) ==
    IF e.ignoreCallbackAst # NoAst
    THEN CallbackReturns([e EXCEPT !.asserted = Append(@, e.ignoreCallbackAst # astWithPrePostCallback),
                           !.ignoreCallbackAst = NoAst], FALSE)
    ELSE IF preCallback /\ ~canEmitSignature(e, c, astWithPrePostCallback, TRUE, preCallback)
         THEN CallbackReturns([e EXCEPT !.ignoreCallbackAst = astWithPrePostCallback], FALSE)
         ELSE CallbackReturns(e, TRUE)

\* getDeclFlagsString(declFlags, pullDecl, typeString)
getDeclFlagsString(e, c, ast, typeString) ==
    LET decl == c.nodes[ast]
        container == c.nodes[getAstDeclarationContainer(e)]
        exports == /\ container.nodeType = "ModuleDeclaration"
                   /\ container.wholeFile
                   /\ decl.exported
        emitDeclare == ~decl.exported \/ exports
    IN  getIndentString(e) \o
        (IF decl.static
         THEN (IF decl.access = "private" THEN <<"private ">> ELSE <<>>) \o <<"static ">>
         ELSE IF decl.access = "private" THEN <<"private ">>
         ELSE IF decl.access = "public" THEN <<"public ">>
         ELSE (IF exports THEN <<"export ">> ELSE <<>>)
              \o (IF emitDeclare /\ typeString \notin {"interface", "import"}
                  THEN <<"declare ">> ELSE <<>>)
              \o <<typeString, " ">>)

\* emitDeclFlags(declFlags, pullDecl, typeString)
emitDeclFlags(e, c, ast, typeString) ==
    [e EXCEPT !.declFile = Write(@, getDeclFlagsString(e, c, ast, typeString))]

\* pushDeclarationContainer(ast)
pushDeclarationContainer(e, ast) ==
    [e EXCEPT !.declarationContainerStack = Append(@, ast),
              !.containers = Append(@, [op |-> "push", ast |-> ast, top |-> ast])]

\* popDeclarationContainer(ast): the assertion, then Array.pop, which leaves an
\* empty array as it is
popDeclarationContainer(e, ast) ==
    [e EXCEPT !.asserted = Append(@, ast # getAstDeclarationContainer(e)),
              !.declarationContainerStack =
                    IF @ = <<>> THEN <<>> ELSE SubSeq(@, 1, Len(@) - 1),
              !.containers = Append(@, [op |-> "pop", ast |-> ast,
                                        top |-> getAstDeclarationContainer(e)])]

\* the varListCount a declarator leaves when it was emitted
CountAfterEmitted(varListCount) ==
    IF varListCount > 0 THEN varListCount - 1
    ELSE IF varListCount < 0 THEN varListCount + 1
    ELSE varListCount

\* variableDeclaratorCallback(pre, varDecl), for declarators without type
\* expression, initialiser and comments
variableDeclaratorCallback(e, c, pre, varDecl) ==
    IF pre /\ canEmitSignature(e, c, varDecl, FALSE, TRUE)
    THEN LET interfaceMember ==
                 c.nodes[getAstDeclarationContainer(e)].nodeType = "InterfaceDeclaration"
             flagged == IF e.varListCount >= 0
                        THEN [emitDeclFlags(e, c, varDecl, "var")
                                 EXCEPT !.varListCount = 0 - e.varListCount]
                        ELSE e
             named == IF ~interfaceMember
                      THEN [flagged EXCEPT !.declFile = Write(@, <<c.nodes[varDecl].name>>)]
                      ELSE [emitIndent(e) EXCEPT !.declFile = Write(@, <<c.nodes[varDecl].name>>)]
             counted == [named EXCEPT !.varListCount = CountAfterEmitted(@)]
         IN  CallbackReturns([counted EXCEPT !.declFile =
                            IF counted.varListCount < 0
                            THEN Write(@, <<", ">>)
                            ELSE WriteLine(@, <<";">>)], FALSE)
    ELSE CallbackReturns(e, FALSE)

\* variableStatementCallback(pre, variableStatement)
variableStatementCallback(e, c, pre, variableStatement) == CallbackReturns(e, TRUE)

\* variableDeclarationCallback(pre, variableDeclaration)
variableDeclarationCallback(e, c, pre, variableDeclaration) ==
    IF pre
    THEN CallbackReturns([e EXCEPT !.varListCount = Len(c.nodes[variableDeclaration].members)], TRUE)
    ELSE CallbackReturns([e EXCEPT !.varListCount = 0], TRUE)

\* classDeclarationCallback(pre, classDecl), for classes without type
\* parameters, base lists, constructor and comments
classDeclarationCallback(e, c, pre, classDecl) ==
    LET can == canEmitPrePostAstSignature(e, c, classDecl, pre)
        d == can.emitter
    IN  IF ~can.goChildren THEN CallbackReturns(d, FALSE)
        ELSE IF pre
        THEN LET flagged == emitDeclFlags(d, c, classDecl, "class")
                 named == [flagged EXCEPT !.declFile = Write(@, <<c.nodes[classDecl].name>>)]
                 pushed == pushDeclarationContainer(named, classDecl)
             IN  CallbackReturns([pushed EXCEPT !.declFile = WriteLine(@, <<" {">>),
                                        !.indenter = @ + 1], TRUE)
        ELSE LET popped == popDeclarationContainer([d EXCEPT !.indenter = @ - 1], classDecl)
             IN  CallbackReturns([emitIndent(popped) EXCEPT !.declFile = WriteLine(@, <<"}">>)], TRUE)

\* interfaceDeclarationCallback(pre, interfaceDecl), for interfaces without type
\* parameters, base list and comments
interfaceDeclarationCallback(e, c, pre, interfaceDecl) ==
    LET can == canEmitPrePostAstSignature(e, c, interfaceDecl, pre)
        d == can.emitter
    IN  IF ~can.goChildren THEN CallbackReturns(d, FALSE)
        ELSE IF c.nodes[interfaceDecl].objectTypeLiteral THEN CallbackReturns(d, FALSE)
        ELSE IF pre
        THEN LET flagged == emitDeclFlags(d, c, interfaceDecl, "interface")
                 named == [flagged EXCEPT !.declFile = Write(@, <<c.nodes[interfaceDecl].name>>)]
                 pushed == pushDeclarationContainer(named, interfaceDecl)
             IN  CallbackReturns([pushed EXCEPT !.declFile = WriteLine(@, <<" {">>),
                                        !.indenter = @ + 1], TRUE)
        ELSE LET popped == popDeclarationContainer([d EXCEPT !.indenter = @ - 1], interfaceDecl)
             IN  CallbackReturns([emitIndent(popped) EXCEPT !.declFile = WriteLine(@, <<"}">>)], TRUE)

RECURSIVE emitEnumMembers(_, _, _, _)
\* the loop of emitEnumSignature over the members from the j-th on: of each
\* variable statement the first declarator of its declaration, without
\* initialiser
emitEnumMembers(e, c, members, j) ==
    IF j > Len(members) THEN e
    ELSE LET variableStatement == c.nodes[members[j]]
             declaration == c.nodes[variableStatement.members[1]]
             varDeclarator == c.nodes[declaration.members[1]]
             written == [emitIndent(e) EXCEPT !.declFile =
                            WriteLine(Write(@, <<varDeclarator.name>>), <<",">>)]
         IN  emitEnumMembers(written, c, members, j + 1)

\* emitEnumSignature(moduleDecl)
emitEnumSignature(e, c, moduleDecl) ==
    IF ~canEmitSignature(e, c, moduleDecl, TRUE, TRUE) THEN e
    ELSE LET flagged == emitDeclFlags(e, c, moduleDecl, "enum")
             opened == [flagged EXCEPT !.declFile = WriteLine(@, <<c.nodes[moduleDecl].name, " {">>),
                                       !.indenter = @ + 1]
             listed == emitEnumMembers(opened, c, c.nodes[moduleDecl].members, 1)
             dedented == [listed EXCEPT !.indenter = @ - 1]
         IN  [emitIndent(dedented) EXCEPT !.declFile = WriteLine(@, <<"}">>)]

\* isCurrentModuleDotted of moduleDeclarationCallback, for modules without
\* comments
isCurrentModuleDotted(c, moduleDecl) ==
    LET members == c.nodes[moduleDecl].members
    IN  /\ Len(members) = 1
        /\ c.nodes[members[1]].nodeType = "ModuleDeclaration"
        /\ ~c.nodes[members[1]].enum
        /\ c.nodes[members[1]].exported

\* moduleDeclarationCallback(pre, moduleDecl)
moduleDeclarationCallback(e, c, pre, moduleDecl) ==
    IF c.nodes[moduleDecl].wholeFile
    THEN IF c.nodes[moduleDecl].dynamic
         THEN IF pre THEN CallbackReturns(pushDeclarationContainer(e, moduleDecl), TRUE)
              ELSE CallbackReturns(popDeclarationContainer(e, moduleDecl), TRUE)
         ELSE CallbackReturns(e, TRUE)
    ELSE IF c.nodes[moduleDecl].enum
    THEN CallbackReturns(IF pre THEN emitEnumSignature(e, c, moduleDecl) ELSE e, FALSE)
    ELSE
    LET can == canEmitPrePostAstSignature(e, c, moduleDecl, pre)
        d == can.emitter
    IN  IF ~can.goChildren THEN CallbackReturns(d, FALSE)
        ELSE IF pre
        THEN LET begun == IF emitDottedModuleName(d)
                          THEN d.dottedModuleEmit \o <<".">>
                          ELSE getDeclFlagsString(d, c, moduleDecl, "module")
                 named == [d EXCEPT !.dottedModuleEmit = begun \o <<c.nodes[moduleDecl].name>>]
                 dotted == isCurrentModuleDotted(c, moduleDecl)
                 pushed == pushDeclarationContainer(
                               [named EXCEPT !.isDottedModuleName = Append(@, dotted)],
                               moduleDecl)
             IN  IF ~dotted
                 THEN CallbackReturns([pushed EXCEPT
                                 !.declFile = WriteLine(Write(@, pushed.dottedModuleEmit), <<" {">>),
                                 !.indenter = @ + 1], TRUE)
                 ELSE CallbackReturns(pushed, TRUE)
        ELSE LET closed == IF ~emitDottedModuleName(d)
                           THEN LET dedented == [d EXCEPT !.indenter = @ - 1]
                                IN  [emitIndent(dedented) EXCEPT
                                        !.declFile = WriteLine(@, <<"}">>)]
                           ELSE d
                 popped == popDeclarationContainer(closed, moduleDecl)
             IN  CallbackReturns([popped EXCEPT !.isDottedModuleName =
                                IF @ = <<>> THEN <<>> ELSE SubSeq(@, 1, Len(@) - 1)], TRUE)

\* compiler.getDocument(fileName): the document of that name, undefined when
\* there is none
getDocument(c, fileName) ==
    IF \E d \in 1..Len(c.documents) : c.documents[d].fileName = fileName
    THEN CHOOSE d \in 1..Len(c.documents) : c.documents[d].fileName = fileName
    ELSE NoAst

\* the document a script node belongs to
DocumentOfScript(c, script) ==
    CHOOSE d \in 1..Len(c.documents) : c.documents[d].script = script

RECURSIVE CollectFromThisFile(_, _, _, _, _)
\* the first loop of emitReferencePaths, from the j-th reference of the script
\* on; reading .script of an undefined document raises
CollectFromThisFile(c, scriptReferences, j, documents, addedGlobalDocument) ==
    IF j > Len(scriptReferences) THEN [documents |-> documents, raised |-> FALSE]
    ELSE LET document == getDocument(c, scriptReferences[j])
         IN  IF document = NoAst THEN [documents |-> documents, raised |-> TRUE]
             ELSE IF \/ c.outputMany
                     \/ c.documents[document].isDeclareFile
                     \/ c.documents[document].topLevelMod
                     \/ ~addedGlobalDocument
             THEN CollectFromThisFile(c, scriptReferences, j + 1,
                        Append(documents, document),
                        \/ addedGlobalDocument
                        \/ (~c.documents[document].isDeclareFile
                                /\ c.documents[document].topLevelMod))
             ELSE CollectFromThisFile(c, scriptReferences, j + 1,
                        documents, addedGlobalDocument)

RECURSIVE CollectFromAll(_, _, _, _)
\* the second loop of emitReferencePaths, from the j-th reference of the i-th
\* document on
CollectFromAll(c, i, j, documents) ==
    IF i > Len(c.documents) THEN [documents |-> documents, raised |-> FALSE]
    ELSE IF c.documents[i].isDeclareFile \/ c.documents[i].topLevelMod
    THEN CollectFromAll(c, i + 1, 1, documents)
    ELSE IF j > Len(c.documents[i].referencedFiles)
    THEN CollectFromAll(c, i + 1, 1, documents)
    ELSE LET document == getDocument(c, c.documents[i].referencedFiles[j])
         IN  IF document = NoAst THEN [documents |-> documents, raised |-> TRUE]
             ELSE IF /\ c.documents[document].isDeclareFile \/ c.documents[document].topLevelMod
                     /\ \A k \in 1..Len(documents) : documents[k] # document
             THEN CollectFromAll(c, i, j + 1, Append(documents, document))
             ELSE CollectFromAll(c, i, j + 1, documents)

\* TypeScriptCompiler.mapToDTSFileName: the name of the declaration file of a
\* source file; a file name is its base name and its extension
mapToDTSFileName(fileName) == SubSeq(fileName, 1, Len(fileName) - 1) \o <<".d.ts">>

\* the text of a reference to a document, all files being in one directory
ReferenceLine(c, document) ==
    <<"/// <reference path=\"">>
        \o (IF c.documents[document].isDeclareFile
            THEN c.documents[document].fileName
            ELSE mapToDTSFileName(c.documents[document].fileName))
        \o <<"\" />">>

RECURSIVE emitReferences(_, _, _, _)
\* the last loop of emitReferencePaths, from the i-th document on
emitReferences(e, c, documents, i) ==
    IF i > Len(documents) THEN e
    ELSE emitReferences([e EXCEPT !.declFile = WriteLine(@, ReferenceLine(c, documents[i])),
                                  !.referenced = Append(@, documents[i])],
                        c, documents, i + 1)

\* the test of emitReferencePaths that never finds the references emitted
ReferencesEmitted_Never(e) == FALSE

\* the test emitReferencePaths begins with
ReferencesEmitted(e) == e.emittedReferencePaths

\* emitReferencePaths(script)
emitReferencePaths(e, c, script) ==
    IF ReferencesEmitted(e) THEN CallbackReturns(e, TRUE)
    ELSE LET this == c.documents[DocumentOfScript(c, script)]
             collected == IF c.outputMany \/ this.topLevelMod
                          THEN CollectFromThisFile(c, this.referencedFiles, 1, <<>>, FALSE)
                          ELSE CollectFromAll(c, 1, 1, <<>>)
         IN  IF collected.raised THEN CallbackRaises(e)
             ELSE CallbackReturns([emitReferences(e, c, collected.documents, 1)
                              EXCEPT !.emittedReferencePaths = TRUE], TRUE)

\* scriptCallback(pre, script)
scriptCallback(e, c, pre, script) ==
    IF pre
    THEN LET emitted == emitReferencePaths(e, c, script)
         IN  IF emitted.raised THEN CallbackRaises(e)
             ELSE CallbackReturns(pushDeclarationContainer(emitted.emitter, script), TRUE)
    ELSE CallbackReturns(popDeclarationContainer(e, script), TRUE)

\* walk(pre, ast) of emitDeclarations, for the node types of the trees below
walk(e, c, pre, ast) ==
    CASE c.nodes[ast].nodeType = "VariableStatement" -> variableStatementCallback(e, c, pre, ast)
      [] c.nodes[ast].nodeType = "VariableDeclaration" -> variableDeclarationCallback(e, c, pre, ast)
      [] c.nodes[ast].nodeType = "VariableDeclarator" -> variableDeclaratorCallback(e, c, pre, ast)
      [] c.nodes[ast].nodeType = "ClassDeclaration" -> classDeclarationCallback(e, c, pre, ast)
      [] c.nodes[ast].nodeType = "InterfaceDeclaration" -> interfaceDeclarationCallback(e, c, pre, ast)
      [] c.nodes[ast].nodeType = "ModuleDeclaration" -> moduleDeclarationCallback(e, c, pre, ast)
      [] c.nodes[ast].nodeType = "Script" -> scriptCallback(e, c, pre, ast)

------------------------------------------------------------------------------
(* The compilations an emitter is used in *)

Exported(ast) == [ast EXCEPT !.exported = TRUE]

\* not exported, but its symbol is visible from outside
Visible(ast) == [ast EXCEPT !.visible = TRUE]

Ambient(ast) == [ast EXCEPT !.ambient = TRUE]

Public(ast) == [ast EXCEPT !.access = "public"]

Enum(ast) == [ast EXCEPT !.enum = TRUE]

ObjectTypeLiteral(ast) == [ast EXCEPT !.objectTypeLiteral = TRUE]

WholeFile(ast) == [ast EXCEPT !.wholeFile = TRUE]

Dynamic(ast) == [ast EXCEPT !.dynamic = TRUE]

\* a document: its name, what its script says about the file, the files the
\* script references, and the root of its tree
Document(fileName, isDeclareFile, topLevelMod, referencedFiles, script) ==
    [fileName |-> fileName, isDeclareFile |-> isDeclareFile, topLevelMod |-> topLevelMod,
     referencedFiles |-> referencedFiles, script |-> script]

A_TS_DOC == <<"a", ".ts">>
B_TS_DOC == <<"b", ".ts">>
M_TS_DOC == <<"m", ".ts">>
LIB_D_TS == <<"lib", ".d.ts">>
GONE_TS == <<"gone", ".ts">>

\* one file of nested declarations:
\*   module M { export class C { public p; }  class D { q; }  interface I { x; }
\*              module N { export class K {} }  export enum E { red }
\*              interface J {}  interface (literal) }
\*   interface (literal)    module O { export module P { export class Q {} } }
\* of which I is visible from outside and D, N, J and the literal in M are not
NestedDeclarations ==
    [outputMany |-> FALSE,
     documents |-> << Document(A_TS_DOC, FALSE, FALSE, <<>>, 1) >>,
     emits |-> <<1>>,
     nodes |-> <<
        Ast("Script", "", <<2, 8, 9>>),
        Ast("ModuleDeclaration", "M", <<3, 4, 5, 6, 7, 15, 16>>),
        Exported(Ast("ClassDeclaration", "C", <<10>>)),
        Ast("ClassDeclaration", "D", <<11>>),
        Visible(Ast("InterfaceDeclaration", "I", <<12>>)),
        Ast("ModuleDeclaration", "N", <<13>>),
        Exported(Enum(Ast("ModuleDeclaration", "E", <<17>>))),
        ObjectTypeLiteral(Ast("InterfaceDeclaration", "", <<>>)),
        Ast("ModuleDeclaration", "O", <<14>>),
        Public(Ast("VariableDeclarator", "p", <<>>)),
        Ast("VariableDeclarator", "q", <<>>),
        Ast("VariableDeclarator", "x", <<>>),
        Exported(Ast("ClassDeclaration", "K", <<>>)),
        Exported(Ast("ModuleDeclaration", "P", <<20>>)),
        Ast("InterfaceDeclaration", "J", <<>>),
        ObjectTypeLiteral(Ast("InterfaceDeclaration", "", <<>>)),
        Ast("VariableStatement", "", <<18>>),
        Ast("VariableDeclaration", "", <<19>>),
        Ast("VariableDeclarator", "red", <<>>),
        Exported(Ast("ClassDeclaration", "Q", <<>>)) >>]

\* a file that is a module as a whole:
\*   export var a, b;  class X {}  module Y { export class Z {} }
\* of which Y is visible from outside and X is not
DynamicModuleFile ==
    [outputMany |-> FALSE,
     documents |-> << Document(M_TS_DOC, FALSE, TRUE, <<>>, 1) >>,
     emits |-> <<1>>,
     nodes |-> <<
        Ast("Script", "", <<2>>),
        Dynamic(WholeFile(Ast("ModuleDeclaration", "m", <<3, 7, 8>>))),
        Ast("VariableStatement", "", <<4>>),
        Ast("VariableDeclaration", "", <<5, 6>>),
        Exported(Ast("VariableDeclarator", "a", <<>>)),
        Exported(Ast("VariableDeclarator", "b", <<>>)),
        Ast("ClassDeclaration", "X", <<>>),
        Visible(Ast("ModuleDeclaration", "Y", <<9>>)),
        Exported(Ast("ClassDeclaration", "Z", <<>>)) >>]

\* a file whose module is the whole file without being dynamic:
\*   class W {}  declare var g;
GlobalFile ==
    [outputMany |-> FALSE,
     documents |-> << Document(A_TS_DOC, FALSE, FALSE, <<>>, 1) >>,
     emits |-> <<1>>,
     nodes |-> <<
        Ast("Script", "", <<2>>),
        WholeFile(Ast("ModuleDeclaration", "a", <<3, 4>>)),
        Ast("ClassDeclaration", "W", <<>>),
        Ast("VariableStatement", "", <<5>>),
        Ast("VariableDeclaration", "", <<6>>),
        Ambient(Ast("VariableDeclarator", "g", <<>>)) >>]

\* a variable declaration has at most this many declarators
MaxDeclarators == 3

\* the name of the i-th declarator
DeclaratorName == [i \in 1..MaxDeclarators |-> <<"a", "b", "c", "d", "e">>[i]]

\* module V { var ...; class T {} }: one variable declaration of n declarators,
\* of which those in passing are visible from outside, and the class after it
VariableList(n, passing) ==
    [outputMany |-> FALSE,
     documents |-> << Document(A_TS_DOC, FALSE, FALSE, <<>>, 1) >>,
     emits |-> <<1>>,
     nodes |-> <<
        Ast("Script", "", <<2>>),
        Ast("ModuleDeclaration", "V", <<3, 5>>),
        Ast("VariableStatement", "", <<4>>),
        Ast("VariableDeclaration", "", [i \in 1..n |-> 5 + i]),
        Exported(Ast("ClassDeclaration", "T", <<>>)) >>
        \o [i \in 1..n |->
                IF i \in passing
                THEN Visible(Ast("VariableDeclarator", DeclaratorName[i], <<>>))
                ELSE Ast("VariableDeclarator", DeclaratorName[i], <<>>)]]

VariableLists ==
    { VariableList(MaxDeclarators, passing) : passing \in SUBSET (1..MaxDeclarators) }
        \cup { VariableList(1, {1}) }

\* the documents of a compilation of a.ts, b.ts, the module m.ts and lib.d.ts
ReferencingDocuments ==
    << Document(A_TS_DOC, FALSE, FALSE, <<LIB_D_TS, M_TS_DOC, LIB_D_TS>>, 1),
       Document(B_TS_DOC, FALSE, FALSE, <<M_TS_DOC, A_TS_DOC, LIB_D_TS>>, 2),
       Document(M_TS_DOC, FALSE, TRUE, <<LIB_D_TS, A_TS_DOC, LIB_D_TS>>, 3),
       Document(LIB_D_TS, TRUE, FALSE, <<>>, 4) >>

\* the trees of these documents: empty scripts
EmptyScripts == [d \in 1..4 |-> Ast("Script", "", <<>>)]

\* one emitter for a.ts and b.ts, one emitter per file used for a.ts (and once
\* more for b.ts), the emitter of the module m.ts, and a.ts with a reference
\* to a file the compiler has no document of
References ==
    { [outputMany |-> FALSE, documents |-> ReferencingDocuments,
       emits |-> <<1, 2>>, nodes |-> EmptyScripts],
      [outputMany |-> TRUE, documents |-> ReferencingDocuments,
       emits |-> <<1, 2>>, nodes |-> EmptyScripts],
      [outputMany |-> FALSE, documents |-> ReferencingDocuments,
       emits |-> <<3>>, nodes |-> EmptyScripts],
      [outputMany |-> FALSE,
       documents |-> << Document(A_TS_DOC, FALSE, FALSE, <<LIB_D_TS, GONE_TS>>, 1),
                        Document(LIB_D_TS, TRUE, FALSE, <<>>, 2) >>,
       emits |-> <<1>>, nodes |-> SubSeq(EmptyScripts, 1, 2)] }

Compilations ==
    {NestedDeclarations, DynamicModuleFile, GlobalFile} \cup VariableLists \cup References

------------------------------------------------------------------------------
(* The walk of the trees *)

\* the walk is in a node: before its pre callback (at = 0), at its at-th child,
\* or past its children (at > Len(members))
Entered(ast) == [ast |-> ast, at |-> 0]

EmitInit ==
    /\ CompilerIdle
    /\ emitter = DeclarationEmitter
    /\ \E c \in Compilations :
            walker = [compilation |-> c, emitted |-> 0, path |-> <<>>,
                      status |-> "idle", trace |-> <<>>, io |-> NothingWritten]

Here == walker.path[Len(walker.path)]

Members(ast) == walker.compilation.nodes[ast].members

PathAbove == SubSeq(walker.path, 1, Len(walker.path) - 1)

\* emitDeclarations(script) for the next document of the emitter: the walk
\* begins at the script
EmitDeclarations ==
    /\ walker.status = "idle"
    /\ walker.emitted < Len(walker.compilation.emits)
    /\ walker' = [walker EXCEPT
            !.emitted = @ + 1,
            !.status = "walking",
            !.path = << Entered(walker.compilation.documents[
                            walker.compilation.emits[walker.emitted + 1]].script) >>]
    /\ UNCHANGED emitter
    /\ CompilerStaysIdle

\* the pre callback of the node the walk has entered: goChildren is what walk
\* returns, and without it the children are passed over; the trace keeps which
\* callback was made, what it returned and how many calls the writer had had
\* when it returned
PreCallback ==
    /\ walker.status = "walking"
    /\ walker.path # <<>>
    /\ Here.at = 0
    /\ LET called == walk(emitter, walker.compilation, TRUE, Here.ast)
       IN  /\ emitter' = called.emitter
           /\ walker' = [walker EXCEPT
                  !.status = IF called.raised THEN "raised" ELSE @,
                  !.trace = Append(@, [pre |-> TRUE, ast |-> Here.ast,
                                       goChildren |-> called.goChildren,
                                       raised |-> called.raised,
                                       written |-> Len(called.emitter.declFile.written)]),
                  !.path = Append(PathAbove,
                               [Here EXCEPT !.at = IF called.goChildren THEN 1
                                                   ELSE Len(Members(Here.ast)) + 1])]
    /\ CompilerStaysIdle

\* the walk enters the next child
WalkChild ==
    /\ walker.status = "walking"
    /\ walker.path # <<>>
    /\ Here.at \in 1..Len(Members(Here.ast))
    /\ walker' = [walker EXCEPT
            !.path = Append(PathAbove, [Here EXCEPT !.at = @ + 1])
                        \o << Entered(Members(Here.ast)[Here.at]) >>]
    /\ UNCHANGED emitter
    /\ CompilerStaysIdle

\* the post callback of a node whose children are done or were passed over;
\* after the post callback of the script emitDeclarations returns
PostCallback ==
    /\ walker.status = "walking"
    /\ walker.path # <<>>
    /\ Here.at > Len(Members(Here.ast))
    /\ LET called == walk(emitter, walker.compilation, FALSE, Here.ast)
       IN  /\ emitter' = called.emitter
           /\ walker' = [walker EXCEPT
                  !.status = IF Len(walker.path) = 1 THEN "idle" ELSE @,
                  !.trace = Append(@, [pre |-> FALSE, ast |-> Here.ast,
                                       goChildren |-> called.goChildren,
                                       raised |-> called.raised,
                                       written |-> Len(called.emitter.declFile.written)]),
                  !.path = PathAbove]
    /\ CompilerStaysIdle

\* close(), after the last document: declFile.Close(), whose writeFile succeeds
\* or raises
EmitterClose ==
    /\ walker.status = "idle"
    /\ walker.emitted = Len(walker.compilation.emits)
    /\ \E fails \in BOOLEAN :
            walker' = [walker EXCEPT !.status = "closed",
                                     !.io = Close(emitter.declFile, @, fails)]
    /\ UNCHANGED emitter
    /\ CompilerStaysIdle

EmitNext ==
    \/ EmitDeclarations
    \/ PreCallback
    \/ WalkChild
    \/ PostCallback
    \/ EmitterClose

EmitSpec == EmitInit /\ [][EmitNext]_vars

------------------------------------------------------------------------------
(* Claims about the visited set, self-references and the units of a pass *)

\* the keys for which a read gave a content so far
KeysRead(readLog) == {readLog[n].key : n \in {k \in 1..Len(readLog) : readLog[k].ok}}

\* the step returns from a call that found no content
CallFails ==
    /\ Len(calls') = Len(calls) + 1
    /\ calls'[Len(calls')].outcome \in {"failed", "notfound"}

\* C31: within a pass no key leaves the visited set; a step that marks a key
\* marks one key, for which its own read gave a content, and starts the frame of
\* the unit with none of its references resolved yet; every marked key was read
\* successfully; a call that fails marks nothing.
C31_VisitedMarkedOnAcquisition ==
    [][/\ visited \subseteq visited'
       /\ visited' # visited =>
             /\ Cardinality(visited' \ visited) = 1
             /\ Len(stack') = Len(stack) + 1
             /\ stack'[Len(stack')].key \in visited' \ visited
             /\ stack'[Len(stack')].i = 1
             /\ stack'[Len(stack')].issued = <<>>
             /\ reads' # reads
             /\ reads'[Len(reads')].ok
             /\ reads'[Len(reads')].key \in visited' \ visited
       /\ visited' \subseteq KeysRead(reads')
       /\ CallFails => visited' = visited]_vars

\* a pass has ended with two keys marked and with a call that failed, whose key
\* is not marked
C31_Witness ==
    /\ pc = "done"
    /\ Cardinality(visited) >= 2
    /\ \E n \in 1..Len(calls) :
          calls[n].outcome = "failed" /\ calls[n].key \notin visited

\* the innermost frame is at a directive for which resolveCode would compute
\* the key its own file was marked with
DenotesOwnFile ==
    /\ pc = "resolve"
    /\ stack # <<>>
    /\ AtDirective(Top)
    /\ AbsoluteModuleID(NormalizedPath(CurrentReference(Top), Top.rootDir, FALSE)) = Top.key

\* C32: at a directive that denotes the file which contains it, by the key of
\* the visited set (after the suffix is completed and the case is folded), the
\* resolver reports a reference of the file to itself.
C32_SelfReferenceByIdentity ==
    [][DenotesOwnFile => errors' = Append(errors, ReferenceError(Top, "self"))]_vars

\* it does when the directive spells the path of the file exactly
SelfReferenceByPath ==
    [][(DenotesOwnFile /\ IsSelfReference(Top, CurrentReference(Top)))
          => errors' = Append(errors, ReferenceError(Top, "self"))]_vars

\* a directive denotes its own file without spelling its path
OwnFileSpelledOtherwise ==
    DenotesOwnFile /\ ~IsSelfReference(Top, CurrentReference(Top))

\* the units batchCompile puts into the environment it gives to resolve: the
\* paths of the command line, without content
EntryUnits == {SourceUnit(entries[i], JSNull) : i \in 1..Len(entries)}

\* the unit at place n of the resolved environment: the one the dispatcher was
\* given when the place was filled
UnitAt(n) ==
    posts[CHOOSE k \in 1..Len(posts) :
              /\ posts[k].path = code[n]
              /\ \A j \in 1..(k - 1) :
                    getPathIdentifier(posts[j].path) # getPathIdentifier(code[n])].code

\* C33: every unit of the resolved environment was given to the dispatcher by
\* resolveCode, has a content, has the directives of its file as referencedFiles
\* and is none of the units of the environment given to resolve; no step of a
\* pass changes that environment.
C33_ResolvedUnitsAreNew ==
    /\ [](\A n \in 1..Len(code) :
             /\ \E k \in 1..Len(posts) : posts[k].path = code[n]
             /\ UnitAt(n).path = code[n]
             /\ UnitAt(n).content # JSNull
             /\ UnitAt(n).content = JSContent(contents[resolvePath(code[n])])
             /\ UnitAt(n).referencedFiles # JSNull
             /\ UnitAt(n).referencedFiles = JSArray(contents[resolvePath(code[n])].refs)
             /\ UnitAt(n) \notin EntryUnits)
    /\ [][entries' = entries]_vars

\* a pass has ended whose environment holds the unit of an entry, under the path
\* the command line gave, and the unit of a file the entry refers to
C33_Witness ==
    /\ pc = "done"
    /\ \E n \in 1..Len(code) : \E i \in 1..Len(entries) :
          /\ code[n] = resolvePath(entries[i])
          /\ SourceUnit(code[n], JSNull) \in EntryUnits
    /\ \E n \in 1..Len(code) : UnitAt(n).referencedFiles = JSArray(<<>>)
    /\ \E n \in 1..Len(code) : UnitAt(n).referencedFiles # JSArray(<<>>)

------------------------------------------------------------------------------
(* Claims about the flag of the error reporter *)

\* the step writes through the error reporter
Writes == stderr' # stderr

\* the step is the reset() at the start of a change notification
Resets == pc = "idle" /\ activation' = "onWatchedFileChange" /\ log' = <<Step("reset")>>

\* the step logs a reset
LogsReset == \E n \in 1..Len(log') : log'[n].step = "reset" /\ (n > Len(log) \/ log[n] # log'[n])

\* the flag is false at construction, a write sets it, a reset clears it, and a
\* reset happens only at the start of a change notification
FlagIsSetAndCleared ==
    /\ (calls = <<>> /\ notifications = 0 /\ log = <<>>) => ~hasErrors
    /\ [][/\ Writes => hasErrors'
          /\ Resets => ~hasErrors'
          /\ (hasErrors /\ ~hasErrors') => Resets
          /\ LogsReset => Resets]_vars

FlagSetWithoutWrite == hasErrors /\ stderr = <<>>

------------------------------------------------------------------------------
(* Claims about TextWriter *)

RECURSIVE Concatenated(_)
\* the strings of the calls one after the other, with the newline string after
\* the argument of each WriteLine
Concatenated(written) ==
    IF written = <<>> THEN <<>>
    ELSE Concatenated(SubSeq(written, 1, Len(written) - 1))
            \o written[Len(written)].s
            \o (IF written[Len(written)].op = "WriteLine" THEN <<NewLineText>> ELSE <<>>)

\* C37: the contents of a writer are the strings of its Write and WriteLine
\* calls in call order, with the newline string after each WriteLine argument;
\* onNewLine is true exactly when there was no call or the last was a WriteLine;
\* a Close gives writeFile the contents of that moment, once, and raises an
\* emitter error exactly when writeFile raised.
C37_WriterContents ==
    /\ [](/\ emitter.contents = Concatenated(emitter.written)
          /\ emitter.onNewLine
                <=> (emitter.written = <<>>
                        \/ emitter.written[Len(emitter.written)].op = "WriteLine")
          /\ Len(walker.writeFile) = walker.closes
          /\ Len(walker.raised)
                = Cardinality({n \in 1..Len(walker.writeFile) : walker.writeFile[n].failed}))
    /\ [][walker'.closes = walker.closes + 1 =>
             /\ walker'.writeFile
                   = Append(walker.writeFile,
                            [contents |-> Concatenated(emitter.written),
                             failed |-> walker'.raised # walker.raised])
             /\ walker'.raised \in {walker.raised, Append(walker.raised, "EmitError")}
             /\ emitter' = emitter]_vars

\* a WriteLine, then a Write of the empty string, then a Close whose writeFile
\* raised
C37_Witness ==
    /\ Len(emitter.written) = 2
    /\ emitter.written[1].op = "WriteLine"
    /\ emitter.written[2] = [op |-> "Write", s |-> <<>>]
    /\ ~emitter.onNewLine
    /\ walker.raised = <<"EmitError">>

------------------------------------------------------------------------------
(* Claims about DeclarationEmitter *)

RECURSIVE OpenContainers(_)
\* the containers pushed and not yet popped, by the history of pushes and pops
OpenContainers(history) ==
    IF history = <<>> THEN <<>>
    ELSE LET before == OpenContainers(SubSeq(history, 1, Len(history) - 1))
             last == history[Len(history)]
         IN  IF last.op = "push" THEN Append(before, last.ast)
             ELSE IF before = <<>> THEN <<>>
             ELSE SubSeq(before, 1, Len(before) - 1)

\* the callbacks that ask canEmitPrePostAstSignature: those of classes,
\* interfaces and modules other than enums and whole files
AsksPrePost(c, ast) ==
    \/ c.nodes[ast].nodeType \in {"ClassDeclaration", "InterfaceDeclaration"}
    \/ /\ c.nodes[ast].nodeType = "ModuleDeclaration"
       /\ ~c.nodes[ast].wholeFile
       /\ ~c.nodes[ast].enum

\* the callback made in this step
Called == walker'.trace[Len(walker'.trace)]

WrittenWithin(n) ==
    LET post == CHOOSE q \in (n + 1)..Len(walker.trace) :
                    ~walker.trace[q].pre /\ walker.trace[q].ast = walker.trace[n].ast
    IN  SubSeq(emitter.declFile.written,
               walker.trace[n].written + 1, walker.trace[post].written)

\* the variable declarations whose post callback was made: the places of their
\* pre callbacks in the trace
DeclarationsDone ==
    { n \in 1..Len(walker.trace) :
        /\ walker.trace[n].pre
        /\ walker.compilation.nodes[walker.trace[n].ast].nodeType = "VariableDeclaration"
        /\ \E q \in (n + 1)..Len(walker.trace) :
                ~walker.trace[q].pre /\ walker.trace[q].ast = walker.trace[n].ast }

\* the call writes the name of a declarator of the declaration
WritesNameOf(declaration, call) ==
    /\ call.op = "Write"
    /\ \E d \in 1..Len(walker.compilation.nodes[declaration].members) :
            call.s = << walker.compilation.nodes[
                            walker.compilation.nodes[declaration].members[d]].name >>

\* the call writes declaration flags with the prefix var
WritesVarFlags(call) ==
    /\ call.op = "Write"
    /\ \E i \in 1..Len(call.s) : call.s[i] = "var"

\* what the claim has a declaration write: nothing when no declarator is
\* emitted, else the flags once, the emitted names with ", " between two of
\* them, and ";" to end the line after the last
WellFormedDeclaration(declaration, written) ==
    LET names == { i \in 1..Len(written) : WritesNameOf(declaration, written[i]) }
    IN  IF names = {} THEN written = <<>>
        ELSE /\ Len(written) = 2 * Cardinality(names) + 1
             /\ WritesVarFlags(written[1])
             /\ \A i \in 2..Len(written) : ~WritesVarFlags(written[i])
             /\ names = { 2 * k : k \in 1..Cardinality(names) }
             /\ \A k \in 1..(Cardinality(names) - 1) :
                    written[2 * k + 1] = [op |-> "Write", s |-> <<", ">>]
             /\ written[Len(written)] = [op |-> "WriteLine", s |-> <<";">>]

\* C36: a variable declaration outside an interface, whatever subset of its
\* declarators passes canEmitSignature, writes the declaration flags with the
\* prefix var exactly once before the first emitted name, ", " only between
\* two emitted declarators, and ";" after the last emitted declarator.
C36_VariableListWellFormed ==
    \A n \in DeclarationsDone :
        WellFormedDeclaration(walker.trace[n].ast, WrittenWithin(n))

\* the declarators of a declaration are alike: all exported or none, all
\* visible from outside or none, all ambient or none
DeclaratorsAlike(declaration) ==
    LET members == walker.compilation.nodes[declaration].members
    IN  \A i, j \in 1..Len(members) :
            /\ walker.compilation.nodes[members[i]].exported
                    = walker.compilation.nodes[members[j]].exported
            /\ walker.compilation.nodes[members[i]].visible
                    = walker.compilation.nodes[members[j]].visible
            /\ walker.compilation.nodes[members[i]].ambient
                    = walker.compilation.nodes[members[j]].ambient

\* the declaration is well formed when all of its declarators pass
\* canEmitSignature or none does
VariableListOfLikeDeclarators ==
    \A n \in DeclarationsDone :
        DeclaratorsAlike(walker.trace[n].ast) =>
            WellFormedDeclaration(walker.trace[n].ast, WrittenWithin(n))

\* a declaration of three declarators, all emitted, is done
LikeDeclaratorsEmitted ==
    \E n \in DeclarationsDone :
        /\ DeclaratorsAlike(walker.trace[n].ast)
        /\ Len(WrittenWithin(n)) = 2 * MaxDeclarators + 1

\* the calls of the writer that write a reference line
ReferenceLinesWritten ==
    { n \in 1..Len(emitter.declFile.written) :
        /\ emitter.declFile.written[n].op = "WriteLine"
        /\ emitter.declFile.written[n].s # <<>>
        /\ emitter.declFile.written[n].s[1] = "/// <reference path=\"" }

\* the references are collected over all documents: one output file, and the
\* script at which they are emitted is not a module as a whole
SingleOutputBranch ==
    /\ ~walker.compilation.outputMany
    /\ ~walker.compilation.documents[walker.compilation.emits[1]].topLevelMod

\* C38: an emitter writes its reference lines at most once however many
\* scripts it is called back for: they are written in one pre callback of a
\* script, before which none was written and after which emittedReferencePaths
\* is set and no further one is written; and when the references are collected
\* over all documents no document is written twice.
C38_ReferencesWrittenOnce ==
    /\ [](/\ Cardinality(ReferenceLinesWritten) = Len(emitter.referenced)
          /\ ~emitter.emittedReferencePaths => emitter.referenced = <<>>
          /\ SingleOutputBranch =>
                \A i, j \in 1..Len(emitter.referenced) :
                    emitter.referenced[i] = emitter.referenced[j] => i = j)
    /\ [][/\ emitter'.referenced # emitter.referenced =>
                /\ emitter.referenced = <<>>
                /\ ~emitter.emittedReferencePaths
                /\ emitter'.emittedReferencePaths
                /\ Called.pre
                /\ walker.compilation.nodes[Called.ast].nodeType = "Script"
          /\ emitter.emittedReferencePaths => emitter'.emittedReferencePaths]_vars

\* one emitter was called back for the scripts of a.ts and of b.ts, which
\* reference lib.d.ts and m.ts three times between them: two lines are written
C38_Witness ==
    /\ SingleOutputBranch
    /\ walker.status = "idle"
    /\ walker.emitted = 2
    /\ Len(emitter.referenced) = 2
    /\ Cardinality({ n \in 1..Len(walker.trace) :
            walker.compilation.nodes[walker.trace[n].ast].nodeType = "Script"
                /\ walker.trace[n].pre }) = 2

\* with one output file per source file a document referenced twice is written
\* twice
ReferencedTwiceWrittenTwice ==
    /\ walker.compilation.outputMany
    /\ \E i, j \in 1..Len(emitter.referenced) :
            i # j /\ emitter.referenced[i] = emitter.referenced[j]

\* a reference to a file without document raises before anything is written
RaisedBeforeWriting ==
    /\ walker.status = "raised"
    /\ emitter.declFile.written = <<>>
    /\ ~emitter.emittedReferencePaths

====
